---- MODULE Spec2Model ----
(***************************************************************************)
(* Mutual-credit ledger and token channel of the funder                    *)
(* (components/funder/src/mutual_credit, components/funder/src/            *)
(* token_channel).  Integers are scaled down from 128 bits to WidthBits    *)
(* bits; every checked_* operation keeps its overflow test.                *)
(***************************************************************************)
EXTENDS Integers, Sequences, FiniteSets, TLC

\* ------------------------------------------------------------------ bounds

\* Width, in bits, standing for the 128 bits of u128 / i128.
WidthBits == 6
\* Request ids (Uid) are 1..MaxUid.
MaxUid == 2
\* Plain locks are 1..MaxLock.
MaxLock == 2
\* Operations accepted in one behaviour of the single ledger.
MaxOps == 6
\* Operations queued in one behaviour of the two ends of a channel.
MaxPairOps == 6
\* Operations in one batch (MAX_OPERATIONS_IN_BATCH, scaled down).
MaxBatch == 2

\* Move tokens sent and received by one end of a token channel, not counting
\* the tokens that come a second time.
MaxTcSteps == 2

U128_MAX == 2 ^ WidthBits - 1
I128_MAX == 2 ^ (WidthBits - 1) - 1
I128_MIN == -(2 ^ (WidthBits - 1))

\* mutual_credit/types.rs: the ceiling of a max debt, below the type's maximum.
MAX_FUNDER_DEBT == 2 ^ (WidthBits - 2)

Uids == 1 .. MaxUid
PlainLocks == 1 .. MaxLock

\* PlainLock::hash(): one-way and injective; a hashed lock is never a plain lock.
Hash(p) == <<"sha512_256", p>>

HashedLocks == {Hash(p) : p \in PlainLocks}

\* The two ends of the channel and a third node.
PublicKeys == {"A", "B", "C"}

\* ------------------------------------------------------- checked arithmetic

\* Option::None of a checked_* operation.  It lies outside both integer types.
NoneInt == I128_MIN - 1

\* u128::checked_add
checked_add(a, b) == IF a + b > U128_MAX THEN NoneInt ELSE a + b

\* u128::checked_sub
checked_sub(a, b) == IF a - b < 0 THEN NoneInt ELSE a - b

\* SafeSignedArithmetic::checked_add_unsigned (i128 + u128)
checked_add_unsigned(a, b) ==
    IF a + b > I128_MAX \/ a + b < I128_MIN THEN NoneInt ELSE a + b

\* SafeSignedArithmetic::checked_sub_unsigned (i128 - u128)
checked_sub_unsigned(a, b) ==
    IF a - b > I128_MAX \/ a - b < I128_MIN THEN NoneInt ELSE a - b

\* ------------------------------------------------------------------ routes

\* FriendsRoute::is_valid: at least two keys, no key twice.
is_valid(route) ==
    /\ Len(route) >= 2
    /\ \A i, j \in 1 .. Len(route) : i # j => route[i] # route[j]

\* FriendsRoute::find_pk_pair: is (pk1, pk2) adjacent, in this order, on the route?
find_pk_pair(route, pk1, pk2) ==
    \E i \in 1 .. Len(route) - 1 : route[i] = pk1 /\ route[i + 1] = pk2

\* ------------------------------------------------------- pending transactions

StageRequest == [tag |-> "Request", dest_hashed_lock |-> <<>>]

StageResponse(h) == [tag |-> "Response", dest_hashed_lock |-> h]

\* types::create_pending_transaction: the request's fields, at stage Request.
create_pending_transaction(r) ==
    [request_id |-> r.request_id,
     route |-> r.route,
     dest_payment |-> r.dest_payment,
     total_dest_payment |-> r.total_dest_payment,
     left_fees |-> r.left_fees,
     src_hashed_lock |-> r.src_hashed_lock,
     stage |-> StageRequest]

\* ImHashMap::insert
MapInsert(m, k, v) == [i \in DOMAIN m \cup {k} |-> IF i = k THEN v ELSE m[i]]

\* ImHashMap::remove
MapRemove(m, k) == [i \in DOMAIN m \ {k} |-> m[i]]

EmptyMap == [i \in {} |-> 0]

\* ------------------------------------------------------------- signatures

\* identity: a signature names its signer and the buffer it was made over.
Sign(pk, buf) == [signer |-> pk, buf |-> buf]

\* crypto::identity::verify_signature
verify_signature(buf, pk, sig) == sig.signer = pk /\ sig.buf = buf

\* signature_buff::create_response_signature_buffer
create_response_signature_buffer(resp, pt) ==
    <<"RESPONSE", resp.request_id, resp.dest_hashed_lock, pt.dest_payment,
      pt.total_dest_payment, Hash(pt.route)>>

\* ----------------------------------------------------------- MutualCredit

\* MutualCredit::new(local_public_key, remote_public_key, balance)
NewMutualCredit(local_pk, remote_pk, balance) ==
    [local_public_key |-> local_pk,
     remote_public_key |-> remote_pk,
     balance |-> balance,
     local_max_debt |-> 0,
     remote_max_debt |-> 0,
     local_pending_debt |-> 0,
     remote_pending_debt |-> 0,
     local_status |-> "Closed",
     remote_status |-> "Closed",
     local_pending |-> EmptyMap,
     remote_pending |-> EmptyMap]

\* Result<_, _> of an operation, with the MutualCredit its &mut argument is left as.
OkRes(mc) == [ok |-> TRUE, err |-> "None", mc |-> mc]

ErrRes(e, mc) == [ok |-> FALSE, err |-> e, mc |-> mc]

\* A failed unwrap(): the thread panics.
PanicRes(mc) == [ok |-> FALSE, err |-> "Panic", mc |-> mc]

\* ------------------------------------------- incoming.rs: process_operation

process_enable_requests(mc) == OkRes([mc EXCEPT !.remote_status = "Open"])

process_disable_requests(mc) ==
    IF mc.remote_status = "Open"
    THEN OkRes([mc EXCEPT !.remote_status = "Closed"])
    ELSE ErrRes("RequestsAlreadyDisabled", mc)
\* Mutant of process_set_remote_max_debt: the ceiling itself is refused.
process_set_remote_max_debt_below_ceiling(mc, proposed_max_debt) ==
    IF proposed_max_debt >= MAX_FUNDER_DEBT
    THEN ErrRes("RemoteMaxDebtTooLarge", mc)
    ELSE OkRes([mc EXCEPT !.local_max_debt = proposed_max_debt])

process_set_remote_max_debt(mc, proposed_max_debt) ==
    IF proposed_max_debt > MAX_FUNDER_DEBT
    THEN ErrRes("RemoteMaxDebtTooLarge", mc)
    ELSE OkRes([mc EXCEPT !.local_max_debt = proposed_max_debt])

\* Mutant of process_request_send_funds: the credit limit is not compared.
process_request_send_funds_no_trust_check(mc, r) ==
    IF ~is_valid(r.route) THEN ErrRes("InvalidRoute", mc)
    ELSE IF r.dest_payment > r.total_dest_payment
    THEN ErrRes("DestPaymentExceedsTotal", mc)
    ELSE IF ~find_pk_pair(r.route, mc.remote_public_key, mc.local_public_key)
    THEN ErrRes("PkPairNotInRoute", mc)
    ELSE IF mc.local_status # "Open" THEN ErrRes("LocalRequestsClosed", mc)
    ELSE
    LET own_freeze_credits == checked_add(r.dest_payment, r.left_fees) IN
    IF own_freeze_credits = NoneInt THEN ErrRes("CreditsCalcOverflow", mc)
    ELSE
    LET new_remote_pending_debt ==
            checked_add(mc.remote_pending_debt, own_freeze_credits) IN
    IF new_remote_pending_debt = NoneInt THEN ErrRes("CreditsCalcOverflow", mc)
    ELSE
    LET add == checked_add_unsigned(mc.balance, new_remote_pending_debt) IN
    IF add = NoneInt THEN ErrRes("CreditsCalcOverflow", mc)
    ELSE
    LET sub == checked_sub_unsigned(add, mc.remote_max_debt) IN
    IF sub = NoneInt THEN ErrRes("CreditsCalcOverflow", mc)
    ELSE IF r.request_id \in DOMAIN mc.remote_pending
    THEN ErrRes("RequestAlreadyExists", mc)
    ELSE OkRes([mc EXCEPT
                  !.remote_pending =
                      MapInsert(@, r.request_id, create_pending_transaction(r)),
                  !.remote_pending_debt = new_remote_pending_debt])
\* Mutant of process_request_send_funds: dest_payment may exceed the total.
process_request_send_funds_any_total(mc, r) ==
    IF ~is_valid(r.route) THEN ErrRes("InvalidRoute", mc)
    ELSE IF ~find_pk_pair(r.route, mc.remote_public_key, mc.local_public_key)
    THEN ErrRes("PkPairNotInRoute", mc)
    ELSE IF mc.local_status # "Open" THEN ErrRes("LocalRequestsClosed", mc)
    ELSE
    LET own_freeze_credits == checked_add(r.dest_payment, r.left_fees) IN
    IF own_freeze_credits = NoneInt THEN ErrRes("CreditsCalcOverflow", mc)
    ELSE
    LET new_remote_pending_debt ==
            checked_add(mc.remote_pending_debt, own_freeze_credits) IN
    IF new_remote_pending_debt = NoneInt THEN ErrRes("CreditsCalcOverflow", mc)
    ELSE
    LET add == checked_add_unsigned(mc.balance, new_remote_pending_debt) IN
    IF add = NoneInt THEN ErrRes("CreditsCalcOverflow", mc)
    ELSE
    LET sub == checked_sub_unsigned(add, mc.remote_max_debt) IN
    IF sub = NoneInt THEN ErrRes("CreditsCalcOverflow", mc)
    ELSE IF sub > 0 THEN ErrRes("InsufficientTrust", mc)
    ELSE IF r.request_id \in DOMAIN mc.remote_pending
    THEN ErrRes("RequestAlreadyExists", mc)
    ELSE OkRes([mc EXCEPT
                  !.remote_pending =
                      MapInsert(@, r.request_id, create_pending_transaction(r)),
                  !.remote_pending_debt = new_remote_pending_debt])

process_request_send_funds(mc, r) ==
    IF ~is_valid(r.route) THEN ErrRes("InvalidRoute", mc)
    ELSE IF r.dest_payment > r.total_dest_payment
    THEN ErrRes("DestPaymentExceedsTotal", mc)
    ELSE IF ~find_pk_pair(r.route, mc.remote_public_key, mc.local_public_key)
    THEN ErrRes("PkPairNotInRoute", mc)
    ELSE IF mc.local_status # "Open" THEN ErrRes("LocalRequestsClosed", mc)
    ELSE
    LET own_freeze_credits == checked_add(r.dest_payment, r.left_fees) IN
    IF own_freeze_credits = NoneInt THEN ErrRes("CreditsCalcOverflow", mc)
    ELSE
    LET new_remote_pending_debt ==
            checked_add(mc.remote_pending_debt, own_freeze_credits) IN
    IF new_remote_pending_debt = NoneInt THEN ErrRes("CreditsCalcOverflow", mc)
    ELSE
    LET add == checked_add_unsigned(mc.balance, new_remote_pending_debt) IN
    IF add = NoneInt THEN ErrRes("CreditsCalcOverflow", mc)
    ELSE
    LET sub == checked_sub_unsigned(add, mc.remote_max_debt) IN
    IF sub = NoneInt THEN ErrRes("CreditsCalcOverflow", mc)
    ELSE IF sub > 0 THEN ErrRes("InsufficientTrust", mc)
    ELSE IF r.request_id \in DOMAIN mc.remote_pending
    THEN ErrRes("RequestAlreadyExists", mc)
    ELSE OkRes([mc EXCEPT
                  !.remote_pending =
                      MapInsert(@, r.request_id, create_pending_transaction(r)),
                  !.remote_pending_debt = new_remote_pending_debt])
\* Mutant of process_response_send_funds: the stage is not looked at.
process_response_send_funds_any_stage(mc, resp) ==
    IF resp.request_id \notin DOMAIN mc.local_pending
    THEN ErrRes("RequestDoesNotExist", mc)
    ELSE
    LET pending_transaction == mc.local_pending[resp.request_id]
        dest_public_key ==
            pending_transaction.route[Len(pending_transaction.route)]
        response_signature_buffer ==
            create_response_signature_buffer(resp, pending_transaction)
    IN
    IF ~verify_signature(response_signature_buffer, dest_public_key,
                         resp.signature)
    THEN ErrRes("InvalidResponseSignature", mc)
    ELSE OkRes([mc EXCEPT
                  !.local_pending[resp.request_id].stage =
                      StageResponse(resp.dest_hashed_lock)])

process_response_send_funds(mc, resp) ==
    IF resp.request_id \notin DOMAIN mc.local_pending
    THEN ErrRes("RequestDoesNotExist", mc)
    ELSE
    LET pending_transaction == mc.local_pending[resp.request_id]
        dest_public_key ==
            pending_transaction.route[Len(pending_transaction.route)]
        response_signature_buffer ==
            create_response_signature_buffer(resp, pending_transaction)
    IN
    IF ~verify_signature(response_signature_buffer, dest_public_key,
                         resp.signature)
    THEN ErrRes("InvalidResponseSignature", mc)
    ELSE IF pending_transaction.stage.tag # "Request"
    THEN ErrRes("NotExpectingResponse", mc)
    ELSE OkRes([mc EXCEPT
                  !.local_pending[resp.request_id].stage =
                      StageResponse(resp.dest_hashed_lock)])

\* Mutant of process_cancel_send_funds: the frozen credit is not released.
process_cancel_send_funds_keeps_debt(mc, c) ==
    IF c.request_id \notin DOMAIN mc.local_pending
    THEN ErrRes("RequestDoesNotExist", mc)
    ELSE
    LET pending_transaction == mc.local_pending[c.request_id]
        removed == [mc EXCEPT !.local_pending = MapRemove(@, c.request_id)]
        freeze_credits ==
            checked_add(pending_transaction.dest_payment,
                        pending_transaction.left_fees)
    IN
    IF freeze_credits = NoneInt THEN PanicRes(removed)
    ELSE
    LET new_local_pending_debt ==
            checked_sub(mc.local_pending_debt, freeze_credits) IN
    IF new_local_pending_debt = NoneInt THEN PanicRes(removed)
    ELSE OkRes(removed)

process_cancel_send_funds(mc, c) ==
    IF c.request_id \notin DOMAIN mc.local_pending
    THEN ErrRes("RequestDoesNotExist", mc)
    ELSE
    LET pending_transaction == mc.local_pending[c.request_id]
        removed == [mc EXCEPT !.local_pending = MapRemove(@, c.request_id)]
        freeze_credits ==
            checked_add(pending_transaction.dest_payment,
                        pending_transaction.left_fees)
    IN
    IF freeze_credits = NoneInt THEN PanicRes(removed)
    ELSE
    LET new_local_pending_debt ==
            checked_sub(mc.local_pending_debt, freeze_credits) IN
    IF new_local_pending_debt = NoneInt THEN PanicRes(removed)
    ELSE OkRes([removed EXCEPT !.local_pending_debt = new_local_pending_debt])

\* Mutant of process_collect_send_funds: the destination plain lock is not verified.
process_collect_send_funds_any_dest_lock(mc, c) ==
    IF c.request_id \notin DOMAIN mc.local_pending
    THEN ErrRes("RequestDoesNotExist", mc)
    ELSE
    LET pending_transaction == mc.local_pending[c.request_id] IN
    IF pending_transaction.stage.tag # "Response"
    THEN ErrRes("NotExpectingCollect", mc)
    ELSE IF Hash(c.src_plain_lock) # pending_transaction.src_hashed_lock
    THEN ErrRes("InvalidSrcPlainLock", mc)
    ELSE
    LET freeze_credits ==
            checked_add(pending_transaction.dest_payment,
                        pending_transaction.left_fees) IN
    IF freeze_credits = NoneInt THEN PanicRes(mc)
    ELSE
    LET removed == [mc EXCEPT !.local_pending = MapRemove(@, c.request_id)]
        new_local_pending_debt ==
            checked_sub(mc.local_pending_debt, freeze_credits)
    IN
    IF new_local_pending_debt = NoneInt THEN PanicRes(removed)
    ELSE
    LET debited == [removed EXCEPT
                      !.local_pending_debt = new_local_pending_debt]
        new_balance == checked_sub_unsigned(mc.balance, freeze_credits)
    IN
    IF new_balance = NoneInt THEN PanicRes(debited)
    ELSE OkRes([debited EXCEPT !.balance = new_balance])

\* Mutant of process_collect_send_funds: the balance moves the wrong way.
process_collect_send_funds_credits_balance(mc, c) ==
    IF c.request_id \notin DOMAIN mc.local_pending
    THEN ErrRes("RequestDoesNotExist", mc)
    ELSE
    LET pending_transaction == mc.local_pending[c.request_id] IN
    IF pending_transaction.stage.tag # "Response"
    THEN ErrRes("NotExpectingCollect", mc)
    ELSE IF Hash(c.src_plain_lock) # pending_transaction.src_hashed_lock
    THEN ErrRes("InvalidSrcPlainLock", mc)
    ELSE IF Hash(c.dest_plain_lock) # pending_transaction.stage.dest_hashed_lock
    THEN ErrRes("InvalidDestPlainLock", mc)
    ELSE
    LET freeze_credits ==
            checked_add(pending_transaction.dest_payment,
                        pending_transaction.left_fees) IN
    IF freeze_credits = NoneInt THEN PanicRes(mc)
    ELSE
    LET removed == [mc EXCEPT !.local_pending = MapRemove(@, c.request_id)]
        new_local_pending_debt ==
            checked_sub(mc.local_pending_debt, freeze_credits)
    IN
    IF new_local_pending_debt = NoneInt THEN PanicRes(removed)
    ELSE
    LET debited == [removed EXCEPT
                      !.local_pending_debt = new_local_pending_debt]
        new_balance == checked_add_unsigned(mc.balance, freeze_credits)
    IN
    IF new_balance = NoneInt THEN PanicRes(debited)
    ELSE OkRes([debited EXCEPT !.balance = new_balance])

process_collect_send_funds(mc, c) ==
    IF c.request_id \notin DOMAIN mc.local_pending
    THEN ErrRes("RequestDoesNotExist", mc)
    ELSE
    LET pending_transaction == mc.local_pending[c.request_id] IN
    IF pending_transaction.stage.tag # "Response"
    THEN ErrRes("NotExpectingCollect", mc)
    ELSE IF Hash(c.src_plain_lock) # pending_transaction.src_hashed_lock
    THEN ErrRes("InvalidSrcPlainLock", mc)
    ELSE IF Hash(c.dest_plain_lock) # pending_transaction.stage.dest_hashed_lock
    THEN ErrRes("InvalidDestPlainLock", mc)
    ELSE
    LET freeze_credits ==
            checked_add(pending_transaction.dest_payment,
                        pending_transaction.left_fees) IN
    IF freeze_credits = NoneInt THEN PanicRes(mc)
    ELSE
    LET removed == [mc EXCEPT !.local_pending = MapRemove(@, c.request_id)]
        new_local_pending_debt ==
            checked_sub(mc.local_pending_debt, freeze_credits)
    IN
    IF new_local_pending_debt = NoneInt THEN PanicRes(removed)
    ELSE
    LET debited == [removed EXCEPT
                      !.local_pending_debt = new_local_pending_debt]
        new_balance == checked_sub_unsigned(mc.balance, freeze_credits)
    IN
    IF new_balance = NoneInt THEN PanicRes(debited)
    ELSE OkRes([debited EXCEPT !.balance = new_balance])

process_operation(mc, op) ==
    CASE op.kind = "EnableRequests" -> process_enable_requests(mc)
      [] op.kind = "DisableRequests" -> process_disable_requests(mc)
      [] op.kind = "SetRemoteMaxDebt" ->
            process_set_remote_max_debt(mc, op.proposed_max_debt)
      [] op.kind = "RequestSendFunds" -> process_request_send_funds(mc, op)
      [] op.kind = "ResponseSendFunds" -> process_response_send_funds(mc, op)
      [] op.kind = "CancelSendFunds" -> process_cancel_send_funds(mc, op)
      [] op.kind = "CollectSendFunds" -> process_collect_send_funds(mc, op)

\* process_operations_list: the operations are applied, in order, to the
\* MutualCredit passed by &mut; the first error ends the loop.  The result
\* carries what that MutualCredit holds when the function returns, and the
\* index of the failing operation.
RECURSIVE process_operations_from(_, _, _)
process_operations_from(mc, operations, index) ==
    IF index > Len(operations)
    THEN [ok |-> TRUE, err |-> "None", mc |-> mc, index |-> 0]
    ELSE LET r == process_operation(mc, operations[index]) IN
         IF r.ok
         THEN process_operations_from(r.mc, operations, index + 1)
         ELSE [ok |-> FALSE, err |-> r.err, mc |-> r.mc, index |-> index]

process_operations_list(mc, operations) ==
    process_operations_from(mc, operations, 1)

\* --------------------------------- outgoing.rs: OutgoingMc::queue_operation

queue_enable_requests(mc) == OkRes([mc EXCEPT !.local_status = "Open"])

queue_disable_requests(mc) == OkRes([mc EXCEPT !.local_status = "Closed"])

queue_set_remote_max_debt(mc, proposed_max_debt) ==
    IF proposed_max_debt > MAX_FUNDER_DEBT
    THEN ErrRes("RemoteMaxDebtTooLarge", mc)
    ELSE OkRes([mc EXCEPT !.remote_max_debt = proposed_max_debt])
\* Mutant of queue_request_send_funds: the frozen credit wraps around.
queue_request_send_funds_wrapping(mc, r) ==
    IF ~is_valid(r.route) THEN ErrRes("InvalidRoute", mc)
    ELSE IF r.dest_payment > r.total_dest_payment
    THEN ErrRes("DestPaymentExceedsTotal", mc)
    ELSE IF ~find_pk_pair(r.route, mc.local_public_key, mc.remote_public_key)
    THEN ErrRes("PkPairNotInRoute", mc)
    ELSE IF mc.remote_status # "Open" THEN ErrRes("RemoteRequestsClosed", mc)
    ELSE
    LET own_freeze_credits ==
            (r.dest_payment + r.left_fees) % (U128_MAX + 1) IN
    IF own_freeze_credits = NoneInt THEN ErrRes("CreditsCalcOverflow", mc)
    ELSE
    LET new_local_pending_debt ==
            checked_add(mc.local_pending_debt, own_freeze_credits) IN
    IF new_local_pending_debt = NoneInt THEN ErrRes("CreditsCalcOverflow", mc)
    ELSE
    LET sub == checked_sub_unsigned(mc.balance, new_local_pending_debt) IN
    IF sub = NoneInt THEN ErrRes("CreditsCalcOverflow", mc)
    ELSE
    LET add == checked_add_unsigned(sub, mc.local_max_debt) IN
    IF add = NoneInt THEN ErrRes("CreditsCalcOverflow", mc)
    ELSE IF add < 0 THEN ErrRes("InsufficientTrust", mc)
    ELSE IF r.request_id \in DOMAIN mc.local_pending
    THEN ErrRes("RequestAlreadyExists", mc)
    ELSE OkRes([mc EXCEPT
                  !.local_pending =
                      MapInsert(@, r.request_id, create_pending_transaction(r)),
                  !.local_pending_debt = new_local_pending_debt])

queue_request_send_funds(mc, r) ==
    IF ~is_valid(r.route) THEN ErrRes("InvalidRoute", mc)
    ELSE IF r.dest_payment > r.total_dest_payment
    THEN ErrRes("DestPaymentExceedsTotal", mc)
    ELSE IF ~find_pk_pair(r.route, mc.local_public_key, mc.remote_public_key)
    THEN ErrRes("PkPairNotInRoute", mc)
    ELSE IF mc.remote_status # "Open" THEN ErrRes("RemoteRequestsClosed", mc)
    ELSE
    LET own_freeze_credits == checked_add(r.dest_payment, r.left_fees) IN
    IF own_freeze_credits = NoneInt THEN ErrRes("CreditsCalcOverflow", mc)
    ELSE
    LET new_local_pending_debt ==
            checked_add(mc.local_pending_debt, own_freeze_credits) IN
    IF new_local_pending_debt = NoneInt THEN ErrRes("CreditsCalcOverflow", mc)
    ELSE
    LET sub == checked_sub_unsigned(mc.balance, new_local_pending_debt) IN
    IF sub = NoneInt THEN ErrRes("CreditsCalcOverflow", mc)
    ELSE
    LET add == checked_add_unsigned(sub, mc.local_max_debt) IN
    IF add = NoneInt THEN ErrRes("CreditsCalcOverflow", mc)
    ELSE IF add < 0 THEN ErrRes("InsufficientTrust", mc)
    ELSE IF r.request_id \in DOMAIN mc.local_pending
    THEN ErrRes("RequestAlreadyExists", mc)
    ELSE OkRes([mc EXCEPT
                  !.local_pending =
                      MapInsert(@, r.request_id, create_pending_transaction(r)),
                  !.local_pending_debt = new_local_pending_debt])

queue_response_send_funds(mc, resp) ==
    IF resp.request_id \notin DOMAIN mc.remote_pending
    THEN ErrRes("RequestDoesNotExist", mc)
    ELSE
    LET pending_transaction == mc.remote_pending[resp.request_id]
        response_signature_buffer ==
            create_response_signature_buffer(resp, pending_transaction)
        dest_public_key ==
            pending_transaction.route[Len(pending_transaction.route)]
    IN
    IF ~verify_signature(response_signature_buffer, dest_public_key,
                         resp.signature)
    THEN ErrRes("InvalidResponseSignature", mc)
    ELSE IF pending_transaction.stage.tag # "Request"
    THEN ErrRes("NotExpectingResponse", mc)
    ELSE OkRes([mc EXCEPT
                  !.remote_pending[resp.request_id].stage =
                      StageResponse(resp.dest_hashed_lock)])

\* Mutant of queue_cancel_send_funds: the frozen credit is not released.
queue_cancel_send_funds_keeps_debt(mc, c) ==
    IF c.request_id \notin DOMAIN mc.remote_pending
    THEN ErrRes("RequestDoesNotExist", mc)
    ELSE
    LET pending_transaction == mc.remote_pending[c.request_id]
        freeze_credits ==
            checked_add(pending_transaction.dest_payment,
                        pending_transaction.left_fees)
    IN
    IF freeze_credits = NoneInt THEN PanicRes(mc)
    ELSE
    LET removed == [mc EXCEPT !.remote_pending = MapRemove(@, c.request_id)]
        new_remote_pending_debt ==
            checked_sub(mc.remote_pending_debt, freeze_credits)
    IN
    IF new_remote_pending_debt = NoneInt THEN PanicRes(removed)
    ELSE OkRes(removed)

queue_cancel_send_funds(mc, c) ==
    IF c.request_id \notin DOMAIN mc.remote_pending
    THEN ErrRes("RequestDoesNotExist", mc)
    ELSE
    LET pending_transaction == mc.remote_pending[c.request_id]
        freeze_credits ==
            checked_add(pending_transaction.dest_payment,
                        pending_transaction.left_fees)
    IN
    IF freeze_credits = NoneInt THEN PanicRes(mc)
    ELSE
    LET removed == [mc EXCEPT !.remote_pending = MapRemove(@, c.request_id)]
        new_remote_pending_debt ==
            checked_sub(mc.remote_pending_debt, freeze_credits)
    IN
    IF new_remote_pending_debt = NoneInt THEN PanicRes(removed)
    ELSE OkRes([removed EXCEPT !.remote_pending_debt = new_remote_pending_debt])

\* Mutant of queue_collect_send_funds: the pending transaction is not removed.
queue_collect_send_funds_keeps_entry(mc, c) ==
    IF c.request_id \notin DOMAIN mc.remote_pending
    THEN ErrRes("RequestDoesNotExist", mc)
    ELSE
    LET pending_transaction == mc.remote_pending[c.request_id] IN
    IF pending_transaction.stage.tag # "Response"
    THEN ErrRes("NotExpectingCollect", mc)
    ELSE IF Hash(c.src_plain_lock) # pending_transaction.src_hashed_lock
    THEN ErrRes("InvalidSrcPlainLock", mc)
    ELSE IF Hash(c.dest_plain_lock) # pending_transaction.stage.dest_hashed_lock
    THEN ErrRes("InvalidDestPlainLock", mc)
    ELSE
    LET freeze_credits ==
            checked_add(pending_transaction.dest_payment,
                        pending_transaction.left_fees) IN
    IF freeze_credits = NoneInt THEN PanicRes(mc)
    ELSE
    LET removed == mc
        new_remote_pending_debt ==
            checked_sub(mc.remote_pending_debt, freeze_credits)
    IN
    IF new_remote_pending_debt = NoneInt THEN PanicRes(removed)
    ELSE
    LET credited == [removed EXCEPT
                       !.remote_pending_debt = new_remote_pending_debt]
        new_balance == checked_add_unsigned(mc.balance, freeze_credits)
    IN
    IF new_balance = NoneInt THEN PanicRes(credited)
    ELSE OkRes([credited EXCEPT !.balance = new_balance])

queue_collect_send_funds(mc, c) ==
    IF c.request_id \notin DOMAIN mc.remote_pending
    THEN ErrRes("RequestDoesNotExist", mc)
    ELSE
    LET pending_transaction == mc.remote_pending[c.request_id] IN
    IF pending_transaction.stage.tag # "Response"
    THEN ErrRes("NotExpectingCollect", mc)
    ELSE IF Hash(c.src_plain_lock) # pending_transaction.src_hashed_lock
    THEN ErrRes("InvalidSrcPlainLock", mc)
    ELSE IF Hash(c.dest_plain_lock) # pending_transaction.stage.dest_hashed_lock
    THEN ErrRes("InvalidDestPlainLock", mc)
    ELSE
    LET freeze_credits ==
            checked_add(pending_transaction.dest_payment,
                        pending_transaction.left_fees) IN
    IF freeze_credits = NoneInt THEN PanicRes(mc)
    ELSE
    LET removed == [mc EXCEPT !.remote_pending = MapRemove(@, c.request_id)]
        new_remote_pending_debt ==
            checked_sub(mc.remote_pending_debt, freeze_credits)
    IN
    IF new_remote_pending_debt = NoneInt THEN PanicRes(removed)
    ELSE
    LET credited == [removed EXCEPT
                       !.remote_pending_debt = new_remote_pending_debt]
        new_balance == checked_add_unsigned(mc.balance, freeze_credits)
    IN
    IF new_balance = NoneInt THEN PanicRes(credited)
    ELSE OkRes([credited EXCEPT !.balance = new_balance])

queue_operation(mc, op) ==
    CASE op.kind = "EnableRequests" -> queue_enable_requests(mc)
      [] op.kind = "DisableRequests" -> queue_disable_requests(mc)
      [] op.kind = "SetRemoteMaxDebt" ->
            queue_set_remote_max_debt(mc, op.proposed_max_debt)
      [] op.kind = "RequestSendFunds" -> queue_request_send_funds(mc, op)
      [] op.kind = "ResponseSendFunds" -> queue_response_send_funds(mc, op)
      [] op.kind = "CancelSendFunds" -> queue_cancel_send_funds(mc, op)
      [] op.kind = "CollectSendFunds" -> queue_collect_send_funds(mc, op)

\* ------------------------------------------------------------- operations

\* Max debts proposed by SetRemoteMaxDebt: below, at and above the ceiling.
ProposedMaxDebts == {0, 2, MAX_FUNDER_DEBT, MAX_FUNDER_DEBT + 1}

\* Routes of a request: both directions of the channel, a key twice, one key.
Routes == {<<"A", "B">>, <<"B", "A">>, <<"A", "A">>, <<"B">>}

\* (dest_payment, total_dest_payment, left_fees) of a request: payments that
\* fit, a payment above its total, and amounts at the top of the integer type.
Amounts ==
    {<<1, 2, 0>>, <<1, 2, 1>>, <<2, 2, 0>>, <<2, 1, 0>>,
     <<U128_MAX, U128_MAX, 0>>, <<U128_MAX, U128_MAX, 1>>}

ControlOps ==
    {[kind |-> "EnableRequests"], [kind |-> "DisableRequests"]}
    \cup {[kind |-> "SetRemoteMaxDebt", proposed_max_debt |-> v] :
            v \in ProposedMaxDebts}

RequestOps ==
    {[kind |-> "RequestSendFunds", request_id |-> id, route |-> rt,
      dest_payment |-> a[1], total_dest_payment |-> a[2], left_fees |-> a[3],
      src_hashed_lock |-> Hash(1)] :
        id \in Uids, rt \in Routes, a \in Amounts}

\* A response to request id as found in table tbl: any hashed lock, signed by
\* any key, over the buffer of this response or of one with another lock.
ResponseOps(tbl) ==
    {[kind |-> "ResponseSendFunds", request_id |-> id, dest_hashed_lock |-> h,
      signature |->
          Sign(k, create_response_signature_buffer(
                      [request_id |-> id, dest_hashed_lock |-> hs], tbl[id]))] :
        id \in DOMAIN tbl, h \in HashedLocks, hs \in HashedLocks,
        k \in PublicKeys}
    \cup {[kind |-> "ResponseSendFunds", request_id |-> id,
           dest_hashed_lock |-> h, signature |-> Sign(k, <<>>)] :
            id \in Uids \ DOMAIN tbl, h \in HashedLocks, k \in {"A", "B"}}

CancelOps == {[kind |-> "CancelSendFunds", request_id |-> id] : id \in Uids}

CollectOps ==
    {[kind |-> "CollectSendFunds", request_id |-> id, src_plain_lock |-> ps,
      dest_plain_lock |-> pd] :
        id \in Uids, ps \in PlainLocks, pd \in PlainLocks}

\* The operations the remote side may send: its responses, cancels and
\* collects answer requests of the local table.
IncomingOps(m) ==
    ControlOps \cup RequestOps \cup ResponseOps(m.local_pending)
    \cup CancelOps \cup CollectOps

\* The operations the local side may queue.
OutgoingOps(m) ==
    ControlOps \cup RequestOps \cup ResponseOps(m.remote_pending)
    \cup CancelOps \cup CollectOps

OpId(op) ==
    IF op.kind \in {"RequestSendFunds", "ResponseSendFunds", "CancelSendFunds",
                    "CollectSendFunds"}
    THEN op.request_id ELSE 0

\* ------------------------------------------------------------------ state

VARIABLES
    \* One ledger, operations arriving in both directions (Spec):
    mc,       \* the MutualCredit of one channel (local "A", remote "B")
    last,     \* the last accepted operation, and the state it was applied to
    steps,    \* the number of operations accepted so far
    \* The two ends of one channel (SpecPair):
    mcs,      \* the MutualCredit of each end
    turn,     \* the end that may send the next batch
    omc,      \* the OutgoingMc of that end: the clone its batch is queued on
    outbatch, \* the operations queued on it so far
    inflight, \* the batch on its way to the other end
    status,   \* "Consistent" until a batch is rejected
    queued,   \* the number of operations queued so far
    happy,    \* progress of the request / response / collect scenario
    \* One end of a token channel, receiving move tokens (SpecTc):
    tc,       \* the DirectionalTc of that end
    heard,    \* the move token it received before the one it holds
    lastrecv, \* the last move token received, and what was answered
    tcsteps,  \* the number of move tokens sent and received so far
    lastreset, \* the last reset of the channel: the terms and what was agreed
    \* The app server between the apps, the funder and the index client
    \* (SpecApp):
    server,      \* the AppServer
    conns,       \* the app end of every connection
    to_funder,   \* what the funder has not yet taken from the app server
    from_funder, \* what the app server has not yet taken from the funder
    to_index,    \* the same two for the index client
    from_index,
    peers,       \* whether funder and index client are alive, what they owe
    result,      \* "Running", or what app_server_loop returned
    applast,     \* the last event the loop handled, and what came of it
    appsteps,    \* the events counted against the bounds
    \* The node that runs the components (SpecNode, and SpecAppFail for its
    \* wait on them):
    node,
    \* The relay listener (SpecListener) and a connection attempt under a
    \* timeout (SpecConnect):
    listener,
    connect,
    \* A value on its way through its wire format (SpecWire):
    wire,
    \* The two ends of a token channel in an exchange (SpecExchange) and over
    \* an unreliable channel (SpecNet):
    xchg,
    \* A FunderState and the mutations applied to it (SpecFunder):
    funder

mcVars == <<mc, last, steps>>

pairVars == <<mcs, turn, omc, outbatch, inflight, status, queued, happy>>

tcVars == <<tc, heard, lastrecv, tcsteps, lastreset>>

appVars ==
    <<server, conns, to_funder, from_funder, to_index, from_index, peers,
      result, applast, appsteps>>

\* The variables of the specifications that come after the token channel.
nodeVars == <<node>>

restVars == <<listener, connect, wire, xchg, funder>>

laterVars == <<appVars, nodeVars, restVars>>

vars == <<mcVars, pairVars, tcVars, laterVars>>

\* The variables of a specification that does not use them.
IdleMc == mc = <<>> /\ last = <<>> /\ steps = 0

IdlePair ==
    /\ mcs = <<>> /\ turn = "" /\ omc = <<>> /\ outbatch = <<>>
    /\ inflight = <<>> /\ status = "" /\ queued = 0 /\ happy = <<>>

IdleTc ==
    /\ tc = <<>> /\ heard = <<>> /\ lastrecv = <<>> /\ tcsteps = 0
    /\ lastreset = <<>>

IdleApp ==
    /\ server = <<>> /\ conns = <<>> /\ to_funder = <<>> /\ from_funder = <<>>
    /\ to_index = <<>> /\ from_index = <<>> /\ peers = <<>> /\ result = ""
    /\ applast = <<>> /\ appsteps = <<>>

IdleNode == node = <<>>

IdleRest ==
    /\ listener = <<>> /\ connect = <<>> /\ wire = <<>> /\ xchg = <<>>
    /\ funder = <<>>

IdleLater == IdleApp /\ IdleNode /\ IdleRest

NoLast ==
    [dir |-> "none", kind |-> "none", op |-> <<>>, pre |-> <<>>,
     reverses |-> FALSE, orig |-> <<>>]

\* last after operation op, accepted in direction dir on state pre.  A cancel
\* that directly follows the request it cancels also keeps the state that
\* request was applied to.
Record(dir, op, pre, old) ==
    LET rev == /\ op.kind = "CancelSendFunds"
               /\ old.kind = "RequestSendFunds"
               /\ old.dir # dir
               /\ old.op.request_id = op.request_id
    IN [dir |-> dir, kind |-> op.kind, op |-> op, pre |-> pre,
        reverses |-> rev, orig |-> IF rev THEN old.pre ELSE <<>>]

Panicked == last.kind = "Panic"

Init ==
    /\ mc = NewMutualCredit("A", "B", 0)
    /\ last = NoLast
    /\ steps = 0
    /\ IdlePair
    /\ IdleTc
    /\ IdleLater

\* An operation of an incoming batch is processed (process_operation).  A
\* rejected operation leaves the MutualCredit as it was.
ProcessOperation ==
    /\ ~Panicked
    /\ steps < MaxOps
    /\ \E op \in IncomingOps(mc) :
         LET r == process_operation(mc, op) IN
         /\ mc' = r.mc
         /\ last' = IF r.ok THEN Record("in", op, mc, last)
                    ELSE IF r.err = "Panic"
                    THEN [NoLast EXCEPT !.kind = "Panic"]
                    ELSE last
         /\ steps' = IF r.ok THEN steps + 1 ELSE steps
    /\ UNCHANGED <<pairVars, tcVars, laterVars>>

\* The local side queues an operation (OutgoingMc::queue_operation) and the
\* batch is adopted.  A refused operation leaves the MutualCredit as it was.
QueueOperation ==
    /\ ~Panicked
    /\ steps < MaxOps
    /\ \E op \in OutgoingOps(mc) :
         LET r == queue_operation(mc, op) IN
         /\ mc' = r.mc
         /\ last' = IF r.ok THEN Record("out", op, mc, last)
                    ELSE IF r.err = "Panic"
                    THEN [NoLast EXCEPT !.kind = "Panic"]
                    ELSE last
         /\ steps' = IF r.ok THEN steps + 1 ELSE steps
    /\ UNCHANGED <<pairVars, tcVars, laterVars>>

Next == ProcessOperation \/ QueueOperation

Spec == Init /\ [][Next]_vars

\* ------------------------------------------------------ claims on Spec

RemoteWithinLimit(m) == m.balance + m.remote_pending_debt <= m.remote_max_debt

LocalWithinLimit(m) == -(m.balance) + m.local_pending_debt <= m.local_max_debt

Accepted == last.kind \notin {"none", "Panic"}

\* C1, as stated: in every reachable state balance + remote_pending_debt <=
\* remote_max_debt and -(balance) + local_pending_debt <= local_max_debt.
C1_CreditLimitAlways == RemoteWithinLimit(mc) /\ LocalWithinLimit(mc)

\* C1, amended: each inequality holds right after an accepted Request on its
\* side (incoming: remote; outgoing: local) and is kept by every accepted
\* operation other than the SetRemoteMaxDebt that sets its limit (outgoing
\* for remote_max_debt, incoming for local_max_debt).
C1_CreditLimitKept ==
    Accepted =>
      /\ (last.kind = "RequestSendFunds" /\ last.dir = "in")
            => RemoteWithinLimit(mc)
      /\ (last.kind = "RequestSendFunds" /\ last.dir = "out")
            => LocalWithinLimit(mc)
      /\ (RemoteWithinLimit(last.pre)
            /\ ~(last.kind = "SetRemoteMaxDebt" /\ last.dir = "out"))
            => RemoteWithinLimit(mc)
      /\ (LocalWithinLimit(last.pre)
            /\ ~(last.kind = "SetRemoteMaxDebt" /\ last.dir = "in"))
            => LocalWithinLimit(mc)

\* An incoming request was accepted with the remote side's credit used up to
\* the limit, on a channel whose balance had already moved.
C1_Witness ==
    /\ last.kind = "RequestSendFunds"
    /\ last.dir = "in"
    /\ mc.balance # 0
    /\ mc.balance + mc.remote_pending_debt = mc.remote_max_debt

RECURSIVE SumFreeze(_)
SumFreeze(tbl) ==
    IF DOMAIN tbl = {} THEN 0
    ELSE LET id == CHOOSE i \in DOMAIN tbl : TRUE IN
         tbl[id].dest_payment + tbl[id].left_fees + SumFreeze(MapRemove(tbl, id))

\* C2: local_pending_debt is the sum of dest_payment + left_fees over the
\* local pending transactions, and remote_pending_debt the sum over the
\* remote ones, in every reachable state.
C2_FrozenCreditAccounting ==
    /\ mc.local_pending_debt = SumFreeze(mc.local_pending)
    /\ mc.remote_pending_debt = SumFreeze(mc.remote_pending)

\* A collect was accepted while another transaction stays frozen.
C2_Witness ==
    /\ last.kind = "CollectSendFunds"
    /\ last.dir = "in"
    /\ DOMAIN mc.local_pending # {}
    /\ mc.local_pending_debt > 0

CollectsFor(id) == {c \in CollectOps : c.request_id = id}

\* C5, as stated: a Collect for a transaction at stage Response(hl) is
\* accepted if and only if the hash of its destination plain lock is hl.
C5_CollectIffDestLock ==
    /\ \A id \in DOMAIN mc.local_pending : \A c \in CollectsFor(id) :
         mc.local_pending[id].stage.tag = "Response" =>
           (process_collect_send_funds(mc, c).ok
              <=> Hash(c.dest_plain_lock)
                    = mc.local_pending[id].stage.dest_hashed_lock)
    /\ \A id \in DOMAIN mc.remote_pending : \A c \in CollectsFor(id) :
         mc.remote_pending[id].stage.tag = "Response" =>
           (queue_collect_send_funds(mc, c).ok
              <=> Hash(c.dest_plain_lock)
                    = mc.remote_pending[id].stage.dest_hashed_lock)

\* C5, amended: a Collect for a transaction at stage Response(hl) is accepted
\* if and only if the hash of its destination plain lock is hl and the hash
\* of its source plain lock is the transaction's src_hashed_lock.
C5_CollectIffBothLocks ==
    /\ \A id \in DOMAIN mc.local_pending : \A c \in CollectsFor(id) :
         mc.local_pending[id].stage.tag = "Response" =>
           (process_collect_send_funds(mc, c).ok
              <=> /\ Hash(c.dest_plain_lock)
                       = mc.local_pending[id].stage.dest_hashed_lock
                  /\ Hash(c.src_plain_lock)
                       = mc.local_pending[id].src_hashed_lock)
    /\ \A id \in DOMAIN mc.remote_pending : \A c \in CollectsFor(id) :
         mc.remote_pending[id].stage.tag = "Response" =>
           (queue_collect_send_funds(mc, c).ok
              <=> /\ Hash(c.dest_plain_lock)
                       = mc.remote_pending[id].stage.dest_hashed_lock
                  /\ Hash(c.src_plain_lock)
                       = mc.remote_pending[id].src_hashed_lock)

\* An incoming collect was accepted for a transaction at stage Response whose
\* two locks differ.
C5_Witness ==
    /\ last.kind = "CollectSendFunds"
    /\ last.dir = "in"
    /\ last.pre.local_pending[last.op.request_id].stage
         = StageResponse(Hash(last.op.dest_plain_lock))
    /\ last.op.dest_plain_lock # last.op.src_plain_lock

\* What of a MutualCredit a request and its cancel touch.
Ledger(m) ==
    <<m.balance, m.local_pending_debt, m.remote_pending_debt, m.local_pending,
      m.remote_pending>>

CancelOf(r) == [kind |-> "CancelSendFunds", request_id |-> r.request_id]

\* C7: a Request followed by the Cancel of the same request_id leaves balance,
\* both pending debts and both pending tables as they were before the
\* Request: an outgoing request cancelled by the remote side, and an incoming
\* request cancelled by the local side.
C7_CancelReversesRequest ==
    /\ last.reverses => Ledger(mc) = Ledger(last.orig)
    /\ \A r \in RequestOps :
         /\ LET q == queue_request_send_funds(mc, r) IN
            q.ok => LET c == process_cancel_send_funds(q.mc, CancelOf(r)) IN
                    c.ok /\ Ledger(c.mc) = Ledger(mc)
         /\ LET q == process_request_send_funds(mc, r) IN
            q.ok => LET c == queue_cancel_send_funds(q.mc, CancelOf(r)) IN
                    c.ok /\ Ledger(c.mc) = Ledger(mc)

\* An outgoing request was accepted on a ledger that already froze credit for
\* another one, and the remote side cancelled it right after.
C7_Witness ==
    /\ last.reverses
    /\ last.dir = "in"
    /\ last.orig.local_pending_debt > 0

\* The table a response, cancel or collect of direction dir works on.
SettleTable(dir, m) == IF dir = "in" THEN m.local_pending ELSE m.remote_pending

Apply(dir, m, op) ==
    IF dir = "in" THEN process_operation(m, op) ELSE queue_operation(m, op)

\* The responses, cancels and collects for request id.
SettleOps(id, tbl) ==
    {o \in ResponseOps(tbl) \cup CancelOps \cup CollectOps : o.request_id = id}

\* C10: after an accepted Cancel or Collect the pending entry is gone and
\* every Response, Cancel or Collect for that request_id is rejected with
\* RequestDoesNotExist; an entry appears in a table only by an accepted
\* Request with that id (outgoing for the local table, incoming for the
\* remote table), so a request is settled at most once.
C10_SettledOnce ==
    Accepted =>
      /\ last.kind \in {"CancelSendFunds", "CollectSendFunds"} =>
           LET id == last.op.request_id
               tbl == SettleTable(last.dir, mc)
           IN /\ id \in DOMAIN SettleTable(last.dir, last.pre)
              /\ id \notin DOMAIN tbl
              /\ \A o \in SettleOps(id, tbl) :
                   Apply(last.dir, mc, o).err = "RequestDoesNotExist"
      /\ \A id \in Uids :
           /\ (id \in DOMAIN mc.local_pending
                 /\ id \notin DOMAIN last.pre.local_pending)
                => /\ last.kind = "RequestSendFunds"
                   /\ last.dir = "out"
                   /\ last.op.request_id = id
           /\ (id \in DOMAIN mc.remote_pending
                 /\ id \notin DOMAIN last.pre.remote_pending)
                => /\ last.kind = "RequestSendFunds"
                   /\ last.dir = "in"
                   /\ last.op.request_id = id

\* A transaction that had reached stage Response was cancelled, with another
\* transaction still pending in the same table.
C10_Witness ==
    /\ last.kind = "CancelSendFunds"
    /\ last.dir = "in"
    /\ last.pre.local_pending[last.op.request_id].stage.tag = "Response"
    /\ DOMAIN mc.local_pending # {}

\* ------------------------------------------- the two ends of one channel

Ends == {"A", "B"}

Other(n) == IF n = "A" THEN "B" ELSE "A"

NoBatch == [to |-> "none", ops |-> <<>>]

\* The requests an end may queue: a small payment with a fee, and the payment
\* of 10 without fees, routed from this end to the other or the other way.
PairRequestOps ==
    {[kind |-> "RequestSendFunds", request_id |-> id, route |-> rt,
      dest_payment |-> a[1], total_dest_payment |-> a[2], left_fees |-> a[3],
      src_hashed_lock |-> Hash(1)] :
        id \in Uids, rt \in {<<"A", "B">>, <<"B", "A">>},
        a \in {<<1, 2, 1>>, <<10, 10, 0>>}}

PairOps(m) ==
    ControlOps \cup PairRequestOps \cup ResponseOps(m.remote_pending)
    \cup CancelOps \cup CollectOps

NoScenario == [stage |-> 0, id |-> 0]

\* The scenario "A requests 10 with no fees on a settled channel at balance
\* 0, B responds, B collects", followed through the operations queued: an
\* operation outside of it abandons it.
Scenario(h, n, m, op) ==
    IF /\ n = "A" /\ op.kind = "RequestSendFunds"
       /\ op.dest_payment = 10 /\ op.left_fees = 0
       /\ m.balance = 0
       /\ DOMAIN m.local_pending = {} /\ DOMAIN m.remote_pending = {}
    THEN [stage |-> 1, id |-> op.request_id]
    ELSE IF /\ n = "B" /\ h.stage = 1 /\ op.kind = "ResponseSendFunds"
            /\ op.request_id = h.id
    THEN [stage |-> 2, id |-> h.id]
    ELSE IF /\ n = "B" /\ h.stage = 2 /\ op.kind = "CollectSendFunds"
            /\ op.request_id = h.id
    THEN [stage |-> 3, id |-> h.id]
    ELSE IF op.kind \in {"EnableRequests", "SetRemoteMaxDebt"} /\ h.stage < 3
    THEN h
    ELSE NoScenario

PairInit ==
    /\ mcs = [n \in Ends |-> NewMutualCredit(n, Other(n), 0)]
    /\ turn = "A"
    /\ omc = NewMutualCredit("A", "B", 0)
    /\ outbatch = <<>>
    /\ inflight = NoBatch
    /\ status = "Consistent"
    /\ queued = 0
    /\ happy = NoScenario
    /\ IdleMc
    /\ IdleTc
    /\ IdleLater

\* The end holding the token queues one more operation on its OutgoingMc
\* (OutgoingMc::queue_operation); a refused operation is not put in the batch.
PairQueue ==
    /\ status = "Consistent"
    /\ inflight.to = "none"
    /\ queued < MaxPairOps
    /\ Len(outbatch) < MaxBatch
    /\ \E op \in PairOps(omc) :
         LET r == queue_operation(omc, op) IN
         /\ r.ok \/ r.err = "Panic"
         /\ omc' = r.mc
         /\ outbatch' = IF r.ok THEN Append(outbatch, op) ELSE outbatch
         /\ status' = IF r.ok THEN status ELSE "Panicked"
         /\ happy' = Scenario(happy, turn, omc, op)
    /\ queued' = queued + 1
    /\ UNCHANGED <<mcs, turn, inflight, mcVars, tcVars, laterVars>>

\* The batch is sent: the state its operations were queued on becomes the
\* sender's MutualCredit.
PairSend ==
    /\ status = "Consistent"
    /\ inflight.to = "none"
    /\ mcs' = [mcs EXCEPT ![turn] = omc]
    /\ inflight' = [to |-> Other(turn), ops |-> outbatch]
    /\ outbatch' = <<>>
    /\ UNCHANGED <<turn, omc, status, queued, happy, mcVars, tcVars, laterVars>>

\* The other end processes the batch on a clone of its MutualCredit
\* (process_operations_list) and adopts the clone if every operation was
\* accepted; it then holds the token.  A rejected batch ends the channel.
PairReceive ==
    /\ status = "Consistent"
    /\ inflight.to # "none"
    /\ LET r == process_operations_list(mcs[inflight.to], inflight.ops) IN
       IF r.ok
       THEN /\ mcs' = [mcs EXCEPT ![inflight.to] = r.mc]
            /\ turn' = inflight.to
            /\ omc' = r.mc
            /\ status' = status
       ELSE /\ status' = IF r.err = "Panic" THEN "Panicked" ELSE "Inconsistent"
            /\ UNCHANGED <<mcs, turn, omc>>
    /\ inflight' = NoBatch
    /\ UNCHANGED <<outbatch, queued, happy, mcVars, tcVars, laterVars>>

PairNext == PairQueue \/ PairSend \/ PairReceive

SpecPair == PairInit /\ [][PairNext]_vars

\* -------------------------------------------------- claims on SpecPair

\* No batch is in flight and none is being built.
NoBatchPending == inflight.to = "none" /\ outbatch = <<>>

\* m is n's view of the channel and p the other end's view of the same.
Mirrored(m, p) ==
    /\ m.balance = -(p.balance)
    /\ m.local_max_debt = p.remote_max_debt
    /\ m.remote_max_debt = p.local_max_debt
    /\ m.local_pending_debt = p.remote_pending_debt
    /\ m.remote_pending_debt = p.local_pending_debt
    /\ m.local_status = p.remote_status
    /\ m.remote_status = p.local_status
    /\ m.local_pending = p.remote_pending
    /\ m.remote_pending = p.local_pending

FreezeOf(pt) == pt.dest_payment + pt.left_fees

\* What a Collect queued by n does to the two ends: the sender gains
\* freeze_credits, the receiver loses them, and the pending debt they were
\* frozen in shrinks by as much.
CollectMovesFreeze(n) ==
    \A c \in CollectOps :
      LET q == queue_operation(mcs[n], c) IN
      q.ok =>
        LET f == FreezeOf(mcs[n].remote_pending[c.request_id])
            r == process_operation(mcs[Other(n)], c)
        IN /\ r.ok
           /\ q.mc.balance = mcs[n].balance + f
           /\ q.mc.remote_pending_debt = mcs[n].remote_pending_debt - f
           /\ r.mc.balance = mcs[Other(n)].balance - f
           /\ r.mc.local_pending_debt = mcs[Other(n)].local_pending_debt - f

Conserved ==
    /\ mcs["A"].balance + mcs["B"].balance = 0
    /\ mcs["A"].local_pending_debt = mcs["B"].remote_pending_debt
    /\ mcs["A"].remote_pending_debt = mcs["B"].local_pending_debt
    /\ CollectMovesFreeze(turn)

\* C6: whenever no batch is in flight the two balances sum to zero and each
\* side's local_pending_debt is the other side's remote_pending_debt; a
\* Collect moves freeze_credits from the pending debt to the balances.
C6_CreditConservation == NoBatchPending => Conserved

\* The same while no batch was rejected: this much holds.
C6_ConservedWhileConsistent ==
    (NoBatchPending /\ status = "Consistent") => Conserved

\* C8: on mirrored states, every operation that queue_operation accepts on
\* the sender is accepted by process_operation on the receiver.
C8_SameRuleSet ==
    (NoBatchPending /\ Mirrored(mcs[turn], mcs[Other(turn)])) =>
      \A op \in OutgoingOps(mcs[turn]) \cup PairRequestOps :
        queue_operation(mcs[turn], op).ok
          => process_operation(mcs[Other(turn)], op).ok

\* The same for every operation but DisableRequests: this much holds.
C8_SameRuleSetButDisable ==
    (NoBatchPending /\ Mirrored(mcs[turn], mcs[Other(turn)])) =>
      \A op \in OutgoingOps(mcs[turn]) \cup PairRequestOps :
        (op.kind # "DisableRequests" /\ queue_operation(mcs[turn], op).ok)
          => process_operation(mcs[Other(turn)], op).ok

\* The two ends are mirrored as long as no batch was rejected.
MirroredWhileConsistent ==
    (NoBatchPending /\ status = "Consistent")
      => Mirrored(mcs["A"], mcs["B"])

Settled(m) ==
    /\ m.local_pending_debt = 0
    /\ m.remote_pending_debt = 0
    /\ DOMAIN m.local_pending = {}
    /\ DOMAIN m.remote_pending = {}

\* C9, as stated: after A's request of 10 and B's response, A sends the
\* collect, and then A.balance = -10.
C9_ASendsCollect ==
    (happy.stage = 2 /\ NoBatchPending /\ status = "Consistent" /\ turn = "A")
      => \E c \in CollectsFor(happy.id) :
           LET q == queue_operation(mcs["A"], c) IN
           q.ok /\ q.mc.balance = -10

\* C9, amended: after A's request of 10 with no fees, B's response and B's
\* collect, all processed by the other end, A.balance = -10, B.balance = 10,
\* the four pending debts are 0 and the pending tables are empty.
C9_HappyPath ==
    (happy.stage = 3 /\ NoBatchPending /\ status = "Consistent") =>
      /\ mcs["A"].balance = -10
      /\ mcs["B"].balance = 10
      /\ Settled(mcs["A"])
      /\ Settled(mcs["B"])

\* The scenario has run to its end and A has processed B's collect.
C9_Witness ==
    /\ happy.stage = 3
    /\ NoBatchPending
    /\ status = "Consistent"
    /\ turn = "A"
    /\ mcs["A"].balance = -10

\* ------------------------------------------- token_channel/directional.rs

\* The order of sha_512_256 on the public keys.
HashRank(pk) == CASE pk = "A" -> 1 [] pk = "B" -> 2 [] OTHER -> 3

\* token_from_public_key: the public key in a signature's place.
token_from_public_key(public_key) == [signer |-> "none", buf |-> <<public_key>>]

\* rand_nonce_from_public_key: a nonce that is no random value.
rand_nonce_from_public_key(public_key) == [derived |-> TRUE, v |-> public_key]

RandValues == {[derived |-> FALSE, v |-> "r1"]}

\* What the signature of a move token is made over.
MoveTokenBuffer(t) ==
    <<t.operations, t.old_token, t.inconsistency_counter, t.move_token_counter,
      t.balance, t.local_pending_debt, t.remote_pending_debt, t.rand_nonce>>

\* FriendMoveToken::new: the token, signed by the identity of signer.
NewFriendMoveToken(operations, old_token, ic, mtc, balance, lpd, rpd, rand_nonce, signer) ==
    LET t == [operations |-> operations, old_token |-> old_token,
              inconsistency_counter |-> ic,
              move_token_counter |-> mtc,
              balance |-> balance,
              local_pending_debt |-> lpd,
              remote_pending_debt |-> rpd,
              rand_nonce |-> rand_nonce]
    IN [operations |-> operations, old_token |-> old_token,
        inconsistency_counter |-> ic,
        move_token_counter |-> mtc,
        balance |-> balance,
        local_pending_debt |-> lpd,
        remote_pending_debt |-> rpd,
        rand_nonce |-> rand_nonce,
        new_token |-> Sign(signer, MoveTokenBuffer(t))]

\* FriendMoveToken::verify
verify(t, public_key) ==
    verify_signature(MoveTokenBuffer(t), public_key, t.new_token)

\* DirectionalTc::new.  direction, friend_move_token and token_wanted are the
\* MoveTokenDirection: Incoming(token) or Outgoing(request of token).
\* Mutant of NewDirectionalTc: the node with the larger hash is the first sender.
NewDirectionalTc_larger_first(local_public_key, remote_public_key) ==
    LET token_channel ==
            NewMutualCredit(local_public_key, remote_public_key, 0)
        first_move_token_lower ==
            NewFriendMoveToken(<<>>,
                               token_from_public_key(local_public_key),
                               0, 0,
                               token_channel.balance,
                               token_channel.local_pending_debt,
                               token_channel.remote_pending_debt,
                               rand_nonce_from_public_key(remote_public_key),
                               local_public_key)
    IN [direction |-> IF HashRank(local_public_key)
                           > HashRank(remote_public_key)
                      THEN "Outgoing" ELSE "Incoming",
        friend_move_token |-> first_move_token_lower,
        token_wanted |-> FALSE,
        token_channel |-> token_channel]

NewDirectionalTc(local_public_key, remote_public_key) ==
    LET token_channel ==
            NewMutualCredit(local_public_key, remote_public_key, 0)
        first_move_token_lower ==
            NewFriendMoveToken(<<>>,
                               token_from_public_key(local_public_key),
                               0, 0,
                               token_channel.balance,
                               token_channel.local_pending_debt,
                               token_channel.remote_pending_debt,
                               rand_nonce_from_public_key(remote_public_key),
                               local_public_key)
    IN [direction |-> IF HashRank(local_public_key)
                           < HashRank(remote_public_key)
                      THEN "Outgoing" ELSE "Incoming",
        friend_move_token |-> first_move_token_lower,
        token_wanted |-> FALSE,
        token_channel |-> token_channel]

\* Option<T>
None == [some |-> FALSE]

Some(x) == [some |-> TRUE, value |-> x]

\* DirectionalTc::create_friend_move_token: None when the direction is
\* Outgoing (u128::wrapping_add on the counter).
create_friend_move_token(dtc, operations, rand_nonce) ==
    IF dtc.direction = "Outgoing" THEN None
    ELSE Some(NewFriendMoveToken(operations,
                       dtc.friend_move_token.new_token,
                       dtc.friend_move_token.inconsistency_counter,
                       (dtc.friend_move_token.move_token_counter + 1)
                           % (U128_MAX + 1),
                       dtc.token_channel.balance,
                       dtc.token_channel.local_pending_debt,
                       dtc.token_channel.remote_pending_debt,
                       rand_nonce,
                       dtc.token_channel.local_public_key))

\* Mutant of begin_outgoing_move_token: the direction is not looked at.
begin_outgoing_move_token_any_direction(dtc) ==
    IF FALSE THEN None
    ELSE Some(dtc.token_channel)
\* DirectionalTc::begin_outgoing_move_token: None when the direction is
\* Outgoing, else an OutgoingTc over a clone of the token channel.
begin_outgoing_move_token(dtc) ==
    IF dtc.direction = "Outgoing" THEN None
    ELSE Some(dtc.token_channel)

\* DirectionalTc::get_outgoing_move_token: the stored FriendMoveTokenRequest
\* when the direction is Outgoing, else None.
get_outgoing_move_token(dtc) ==
    IF dtc.direction = "Incoming" THEN None
    ELSE Some([friend_move_token |-> dtc.friend_move_token,
               token_wanted |-> dtc.token_wanted])

get_new_token(dtc) == dtc.friend_move_token.new_token

\* Mutant of mutate: an end that sends a move token stores it and keeps the
\* direction it had.
mutate_direction_kept(dtc, d_mutation) ==
    CASE d_mutation.kind = "TcMutation" ->
           [dtc EXCEPT !.token_channel = d_mutation.token_channel]
      [] d_mutation.kind = "SetDirection" ->
           [dtc EXCEPT !.direction = IF d_mutation.direction = "Outgoing"
                                     THEN dtc.direction
                                     ELSE d_mutation.direction,
                       !.friend_move_token = d_mutation.friend_move_token,
                       !.token_wanted = FALSE]
      [] d_mutation.kind = "SetTokenWanted" ->
           [dtc EXCEPT !.token_wanted = TRUE]

\* DirectionalTc::mutate.  The TcMutations of a batch are kept as one
\* mutation that carries the state they lead to.
mutate(dtc, d_mutation) ==
    CASE d_mutation.kind = "TcMutation" ->
           [dtc EXCEPT !.token_channel = d_mutation.token_channel]
      [] d_mutation.kind = "SetDirection" ->
           [dtc EXCEPT !.direction = d_mutation.direction,
                       !.friend_move_token = d_mutation.friend_move_token,
                       !.token_wanted = FALSE]
      [] d_mutation.kind = "SetTokenWanted" ->
           [dtc EXCEPT !.token_wanted = TRUE]

RECURSIVE MutateAll(_, _)
MutateAll(dtc, mutations) ==
    IF mutations = <<>> THEN dtc
    ELSE MutateAll(mutate(dtc, Head(mutations)), Tail(mutations))

\* The incoming messages of a processed batch: one for each request,
\* response, cancel and collect.
RECURSIVE IncomingMessages(_)
IncomingMessages(operations) ==
    IF operations = <<>> THEN <<>>
    ELSE IF Head(operations).kind \in {"EnableRequests", "DisableRequests",
                                       "SetRemoteMaxDebt"}
    THEN IncomingMessages(Tail(operations))
    ELSE <<Head(operations)>> \o IncomingMessages(Tail(operations))

\* Results of simulate_receive_move_token.
TcErr(e) ==
    [tag |-> "Err", err |-> e, incoming_messages |-> <<>>, mutations |-> <<>>]

TcOutput(tag) ==
    [tag |-> tag, err |-> "None", incoming_messages |-> <<>>,
     mutations |-> <<>>]

\* Mutant of outgoing_to_incoming: the result of the batch is not looked at.
outgoing_to_incoming_ignores_result(dtc, old_move_token, new_move_token) ==
    IF new_move_token.inconsistency_counter
         # old_move_token.inconsistency_counter
    THEN TcErr("InvalidInconsistencyCounter")
    ELSE IF old_move_token.move_token_counter = U128_MAX
    THEN TcErr("MoveTokenCounterOverflow")
    ELSE IF new_move_token.move_token_counter
              # old_move_token.move_token_counter + 1
    THEN TcErr("InvalidMoveTokenCounter")
    ELSE
    LET res == process_operations_list(dtc.token_channel,
                                       new_move_token.operations)
        token_channel == res.mc
    IN IF res.err = "Panic"
       THEN TcOutput("Panic")
       ELSE IF \/ token_channel.balance # new_move_token.balance
               \/ token_channel.local_pending_debt
                    # new_move_token.local_pending_debt
               \/ token_channel.remote_pending_debt
                    # new_move_token.remote_pending_debt
       THEN TcErr("InvalidStatedBalance")
       ELSE [tag |-> "Received", err |-> "None",
             incoming_messages |->
                 IncomingMessages(new_move_token.operations),
             mutations |->
                 <<[kind |-> "TcMutation", token_channel |-> token_channel],
                   [kind |-> "SetDirection", direction |-> "Incoming",
                    friend_move_token |-> new_move_token]>>]

\* DirectionalTc::outgoing_to_incoming: the token answers our outgoing one.
\* The stated balances are compared with the clone the batch was processed
\* on before the result of the batch is looked at.
outgoing_to_incoming(dtc, old_move_token, new_move_token) ==
    IF new_move_token.inconsistency_counter
         # old_move_token.inconsistency_counter
    THEN TcErr("InvalidInconsistencyCounter")
    ELSE IF old_move_token.move_token_counter = U128_MAX
    THEN TcErr("MoveTokenCounterOverflow")
    ELSE IF new_move_token.move_token_counter
              # old_move_token.move_token_counter + 1
    THEN TcErr("InvalidMoveTokenCounter")
    ELSE
    LET res == process_operations_list(dtc.token_channel,
                                       new_move_token.operations)
        token_channel == res.mc
    IN IF res.err = "Panic"
       THEN TcOutput("Panic")
       ELSE IF \/ token_channel.balance # new_move_token.balance
               \/ token_channel.local_pending_debt
                    # new_move_token.local_pending_debt
               \/ token_channel.remote_pending_debt
                    # new_move_token.remote_pending_debt
       THEN TcErr("InvalidStatedBalance")
       ELSE IF res.ok
       THEN [tag |-> "Received", err |-> "None",
             incoming_messages |->
                 IncomingMessages(new_move_token.operations),
             mutations |->
                 <<[kind |-> "TcMutation", token_channel |-> token_channel],
                   [kind |-> "SetDirection", direction |-> "Incoming",
                    friend_move_token |-> new_move_token]>>]
       ELSE TcErr("InvalidTransaction")

\* DirectionalTc::simulate_receive_move_token
\* Mutant of simulate_receive_move_token: a token seen before is not told from another.
simulate_receive_move_token_no_duplicate(dtc, move_token_msg) ==
    IF ~verify(move_token_msg, dtc.token_channel.remote_public_key)
    THEN TcErr("InvalidSignature")
    ELSE IF dtc.direction = "Incoming"
    THEN TcErr("ChainInconsistency")
    ELSE IF move_token_msg.old_token = get_new_token(dtc)
    THEN outgoing_to_incoming(dtc, dtc.friend_move_token, move_token_msg)
    ELSE IF dtc.friend_move_token.old_token = move_token_msg.new_token
    THEN [tag |-> "RetransmitOutgoing", err |-> "None",
          incoming_messages |-> <<>>, mutations |-> <<>>,
          friend_move_token |-> dtc.friend_move_token]
    ELSE TcErr("ChainInconsistency")
\* Mutant of simulate_receive_move_token: a lost token of ours is not sent again.
simulate_receive_move_token_no_retransmit(dtc, move_token_msg) ==
    IF ~verify(move_token_msg, dtc.token_channel.remote_public_key)
    THEN TcErr("InvalidSignature")
    ELSE IF dtc.direction = "Incoming"
    THEN IF dtc.friend_move_token = move_token_msg
         THEN TcOutput("Duplicate")
         ELSE TcErr("ChainInconsistency")
    ELSE IF move_token_msg.old_token = get_new_token(dtc)
    THEN outgoing_to_incoming(dtc, dtc.friend_move_token, move_token_msg)
    ELSE TcErr("ChainInconsistency")
\* Mutant of simulate_receive_move_token: the signature is not looked at.
simulate_receive_move_token_no_verify(dtc, move_token_msg) ==
    IF FALSE
    THEN TcErr("InvalidSignature")
    ELSE IF dtc.direction = "Incoming"
    THEN IF dtc.friend_move_token = move_token_msg
         THEN TcOutput("Duplicate")
         ELSE TcErr("ChainInconsistency")
    ELSE IF move_token_msg.old_token = get_new_token(dtc)
    THEN outgoing_to_incoming(dtc, dtc.friend_move_token, move_token_msg)
    ELSE IF dtc.friend_move_token.old_token = move_token_msg.new_token
    THEN [tag |-> "RetransmitOutgoing", err |-> "None",
          incoming_messages |-> <<>>, mutations |-> <<>>,
          friend_move_token |-> dtc.friend_move_token]
    ELSE TcErr("ChainInconsistency")

simulate_receive_move_token(dtc, move_token_msg) ==
    IF ~verify(move_token_msg, dtc.token_channel.remote_public_key)
    THEN TcErr("InvalidSignature")
    ELSE IF dtc.direction = "Incoming"
    THEN IF dtc.friend_move_token = move_token_msg
         THEN TcOutput("Duplicate")
         ELSE TcErr("ChainInconsistency")
    ELSE IF move_token_msg.old_token = get_new_token(dtc)
    THEN outgoing_to_incoming(dtc, dtc.friend_move_token, move_token_msg)
    ELSE IF dtc.friend_move_token.old_token = move_token_msg.new_token
    THEN [tag |-> "RetransmitOutgoing", err |-> "None",
          incoming_messages |-> <<>>, mutations |-> <<>>,
          friend_move_token |-> dtc.friend_move_token]
    ELSE TcErr("ChainInconsistency")

\* ------------------------------------------------- one end, move tokens

\* Operations of the batches the remote side sends.
TcRemoteOps(m) ==
    {[kind |-> "EnableRequests"], [kind |-> "DisableRequests"],
     [kind |-> "SetRemoteMaxDebt", proposed_max_debt |-> 2],
     [kind |-> "RequestSendFunds", request_id |-> 1,
      route |-> <<m.remote_public_key, m.local_public_key>>,
      dest_payment |-> 1, total_dest_payment |-> 2, left_fees |-> 1,
      src_hashed_lock |-> Hash(1)],
     [kind |-> "CancelSendFunds", request_id |-> 1]}
    \cup {[kind |-> "ResponseSendFunds", request_id |-> id,
           dest_hashed_lock |-> Hash(2),
           signature |->
               Sign(m.remote_public_key,
                    create_response_signature_buffer(
                        [request_id |-> id, dest_hashed_lock |-> Hash(2)],
                        m.local_pending[id]))] :
            id \in DOMAIN m.local_pending \cap {1}}

\* Operations of the batches the local side sends.
TcLocalOps(m) ==
    {[kind |-> "EnableRequests"],
     [kind |-> "SetRemoteMaxDebt", proposed_max_debt |-> 2],
     [kind |-> "RequestSendFunds", request_id |-> 1,
      route |-> <<m.local_public_key, m.remote_public_key>>,
      dest_payment |-> 1, total_dest_payment |-> 2, left_fees |-> 1,
      src_hashed_lock |-> Hash(1)],
     [kind |-> "CancelSendFunds", request_id |-> 1]}

\* Batches of up to MaxBatch operations out of ops.
Batches(ops) ==
    UNION {[1..n -> ops] : n \in 0..MaxBatch}

\* The batch is queued on an OutgoingMc, one operation after the other.
RECURSIVE queue_operations_from(_, _, _)
queue_operations_from(m, operations, index) ==
    IF index > Len(operations)
    THEN OkRes(m)
    ELSE LET r == queue_operation(m, operations[index]) IN
         IF r.ok
         THEN queue_operations_from(r.mc, operations, index + 1)
         ELSE r

\* (balance, local_pending_debt, remote_pending_debt) as m has them, and as
\* the other end of the same channel has them.
StatedBy(m) ==
    {<<m.balance, m.local_pending_debt, m.remote_pending_debt>>,
     <<-(m.balance), m.remote_pending_debt, m.local_pending_debt>>}

\* The balances a token with these operations may state: those before the
\* batch and those after the part of it that is processed.
Stated(m, operations) ==
    StatedBy(m) \cup StatedBy(process_operations_list(m, operations).mc)

NoToken == <<>>

\* The headers of the tokens that may arrive: the header that answers the
\* token we hold, signed by the remote side, and the same with another old
\* token, inconsistency counter, move token counter or signer.
TokenHeaders(dtc) ==
    LET right == [old_token |-> get_new_token(dtc),
                  ic |-> dtc.friend_move_token.inconsistency_counter,
                  mtc |-> dtc.friend_move_token.move_token_counter + 1,
                  signer |-> dtc.token_channel.remote_public_key]
    IN {right,
        [right EXCEPT !.old_token = dtc.friend_move_token.old_token],
        [right EXCEPT !.ic = @ + 1],
        [right EXCEPT !.mtc = @ - 1],
        [right EXCEPT !.signer = "C"]}

\* The tokens seen before: the stored one and the one received before it.
Replays(dtc, old) ==
    {dtc.friend_move_token} \cup (IF old = NoToken THEN {} ELSE {old})

\* The move tokens that may arrive: any batch under any of the headers,
\* stating any of the balances, or a token seen before.
MoveTokens(dtc, old) ==
    UNION {
      {NewFriendMoveToken(ops, h.old_token, h.ic, h.mtc, st[1], st[2], st[3],
                          rn, h.signer) :
          h \in TokenHeaders(dtc),
          st \in Stated(dtc.token_channel, ops),
          rn \in RandValues} :
      ops \in Batches(TcRemoteOps(dtc.token_channel))}
    \cup Replays(dtc, old)

NoReset == [count |-> 0]

NoRecv ==
    [tag |-> "none", err |-> "None", pre |-> <<>>, operations |-> <<>>,
     answers |-> FALSE, incoming_messages |-> <<>>, mutations |-> <<>>,
     direction |-> "none", valid |-> FALSE, same |-> FALSE, lost |-> FALSE,
     resent |-> FALSE, unchanged |-> TRUE, chained |-> FALSE,
     move_token_counter |-> 0, inconsistency_counter |-> 0]

TcInit ==
    /\ tc \in {NewDirectionalTc("A", "B"), NewDirectionalTc("B", "A")}
    /\ heard = NoToken
    /\ lastrecv = NoRecv
    /\ tcsteps = 0
    /\ lastreset = NoReset
    /\ IdleMc
    /\ IdlePair
    /\ IdleLater

\* A token answered with an error ends the exchange: the channel is
\* inconsistent from then on.
TcStopped == lastrecv.tag \in {"Err", "Panic"}

\* A move token arrives: simulate_receive_move_token, and the mutations of
\* a received token are applied (mutate).  lastrecv keeps the answer and what
\* the token was like: validly signed, the same as the stored token, its
\* new_token the old_token of the stored token (lost), and whether the
\* stored token was handed out for resending and the channel left as it was,
\* whether its old_token was the new_token of the stored token (chained),
\* and the two counters of the token that was stored when it came.
TcReceive ==
    /\ ~TcStopped
    /\ \E t \in IF tcsteps < MaxTcSteps THEN MoveTokens(tc, heard)
                                        ELSE Replays(tc, heard) :
         LET r == simulate_receive_move_token(tc, t) IN
         /\ tc' = MutateAll(tc, r.mutations)
         /\ lastrecv' =
              [tag |-> r.tag, err |-> r.err, pre |-> tc.token_channel,
               operations |-> t.operations,
               answers |-> /\ tc.direction = "Outgoing"
                           /\ verify(t, tc.token_channel.remote_public_key)
                           /\ t.old_token = get_new_token(tc),
               incoming_messages |-> r.incoming_messages,
               mutations |-> r.mutations,
               direction |-> tc.direction,
               valid |-> verify(t, tc.token_channel.remote_public_key),
               same |-> t = tc.friend_move_token,
               lost |-> tc.friend_move_token.old_token = t.new_token,
               resent |-> /\ r.tag = "RetransmitOutgoing"
                          /\ r.friend_move_token = tc.friend_move_token,
               unchanged |-> MutateAll(tc, r.mutations) = tc,
               chained |-> t.old_token = get_new_token(tc),
               move_token_counter |-> tc.friend_move_token.move_token_counter,
               inconsistency_counter |->
                   tc.friend_move_token.inconsistency_counter]
         /\ tcsteps' = IF r.tag = "Received" THEN tcsteps + 1 ELSE tcsteps
    /\ UNCHANGED <<heard, lastreset, mcVars, pairVars, laterVars>>

\* The local side sends a batch: begin_outgoing_move_token, the operations
\* are queued, create_friend_move_token, and the direction turns (mutate).
TcSend ==
    /\ tcsteps < MaxTcSteps
    /\ ~TcStopped
    /\ begin_outgoing_move_token(tc).some
    /\ \E ops \in Batches(TcLocalOps(tc.token_channel)), rn \in RandValues :
         LET outgoing_tc == begin_outgoing_move_token(tc).value
             q == queue_operations_from(outgoing_tc, ops, 1)
             queued_tc == mutate(tc, [kind |-> "TcMutation",
                                      token_channel |-> q.mc])
             t == create_friend_move_token(queued_tc, ops, rn)
         IN /\ q.ok
            /\ t.some
            /\ tc' = mutate(queued_tc,
                            [kind |-> "SetDirection",
                             direction |-> "Outgoing",
                             friend_move_token |-> t.value])
    /\ heard' = tc.friend_move_token
    /\ tcsteps' = tcsteps + 1
    /\ UNCHANGED <<lastrecv, lastreset, mcVars, pairVars, laterVars>>

TcNext == TcReceive \/ TcSend

SpecTc == TcInit /\ [][TcNext]_vars

\* ---------------------------------------------------- claims on SpecTc

\* What process_operations_list makes of the last token's operations, on the
\* state they arrived at.
LastBatch == process_operations_list(lastrecv.pre, lastrecv.operations)

FailingBatch == lastrecv.tag # "none" /\ ~LastBatch.ok

\* The operations of the last token were processed: these two errors come
\* after the call of process_operations_list.
BatchProcessed ==
    lastrecv.tag = "Received"
    \/ lastrecv.err \in {"InvalidStatedBalance", "InvalidTransaction"}

\* C3: when process_operations_list returns an error, the MutualCredit it
\* was called on is as it was before the call.
C3_BatchAllOrNothing ==
    (BatchProcessed /\ FailingBatch) => LastBatch.mc = lastrecv.pre

\* C4: a move token with an operation that fails processing is never
\* Received and yields no mutations and no incoming messages, whatever
\* balances it states; when it answers our outgoing token, so that its
\* operations are processed, the result is an error.
C4_FailingTokenRejected ==
    FailingBatch =>
      /\ lastrecv.tag \in {"Err", "Duplicate", "RetransmitOutgoing"}
      /\ lastrecv.mutations = <<>>
      /\ lastrecv.incoming_messages = <<>>
      /\ lastrecv.answers => lastrecv.tag = "Err"

\* A token whose second operation fails answers our outgoing token and
\* states the balances the processed part of its batch leads to.
C4_Witness ==
    /\ FailingBatch
    /\ lastrecv.answers
    /\ LastBatch.index = 2
    /\ lastrecv.err = "InvalidTransaction"

\* ---------------------------------------------- further claims on Spec

\* The last accepted operation was an incoming one of this kind.
LastIn(kind) == last.dir = "in" /\ last.kind = kind

\* The last accepted operation was an outgoing one of this kind.
LastOut(kind) == last.dir = "out" /\ last.kind = kind

\* m with the stage of every local pending transaction left out.
LocalStagesHidden(m) ==
    [m EXCEPT !.local_pending =
        [i \in DOMAIN m.local_pending |->
            [m.local_pending[i] EXCEPT !.stage = StageRequest]]]

\* C11: an incoming ResponseSendFunds is accepted only for a local pending
\* transaction at stage Request, signed by the last key of its route; it
\* changes the stage of that transaction to Response(dest_hashed_lock) and
\* nothing else, and a second response for the same request is rejected.
C11_ResponseFrame ==
    /\ LastIn("ResponseSendFunds") =>
         LET id == last.op.request_id
             pre == last.pre
         IN /\ id \in DOMAIN pre.local_pending
            /\ pre.local_pending[id].stage = StageRequest
            /\ last.op.signature.signer
                 = pre.local_pending[id].route[Len(pre.local_pending[id].route)]
            /\ verify_signature(
                   create_response_signature_buffer(last.op,
                                                    pre.local_pending[id]),
                   last.op.signature.signer, last.op.signature)
            /\ mc.local_pending[id].stage
                 = StageResponse(last.op.dest_hashed_lock)
            /\ LocalStagesHidden(mc) = LocalStagesHidden(pre)
            /\ \A i \in DOMAIN pre.local_pending \ {id} :
                 mc.local_pending[i] = pre.local_pending[i]
            /\ \A again \in ResponseOps(mc.local_pending) :
                 again.request_id = id => ~process_operation(mc, again).ok
    /\ \A resp \in ResponseOps(mc.local_pending) :
         process_operation(mc, resp).ok =>
           /\ resp.request_id \in DOMAIN mc.local_pending
           /\ mc.local_pending[resp.request_id].stage = StageRequest

\* A response was accepted while another request was pending as well.
C11_Witness ==
    /\ LastIn("ResponseSendFunds")
    /\ Cardinality(DOMAIN mc.local_pending) = 2

\* The conditions under which an incoming request is to be accepted, in
\* unbounded integers.
RequestAcceptable(m, r) ==
    /\ is_valid(r.route)
    /\ r.dest_payment <= r.total_dest_payment
    /\ find_pk_pair(r.route, m.remote_public_key, m.local_public_key)
    /\ m.local_status = "Open"
    /\ r.dest_payment + r.left_fees <= U128_MAX
    /\ m.remote_pending_debt + r.dest_payment + r.left_fees <= U128_MAX
    /\ m.balance + m.remote_pending_debt + r.dest_payment + r.left_fees
         <= m.remote_max_debt
    /\ r.request_id \notin DOMAIN m.remote_pending

\* The answer res to request r in ledger m: accepted exactly when
\* acceptable, and the ledger as it was when refused.
RequestAnswered(m, r, res) ==
    IF res.ok THEN RequestAcceptable(m, r)
    ELSE ~RequestAcceptable(m, r) /\ res.mc = m

SetRemoteMaxDebtOp(v) == [kind |-> "SetRemoteMaxDebt", proposed_max_debt |-> v]

\* Limits above the ceiling: the two next to it, the middle of the rest and
\* the largest u128.
AboveCeiling ==
    {MAX_FUNDER_DEBT + 1, MAX_FUNDER_DEBT + 2,
     (MAX_FUNDER_DEBT + U128_MAX) \div 2, U128_MAX}

\* C13: SetRemoteMaxDebt(MAX_FUNDER_DEBT) is accepted, incoming setting
\* local_max_debt and outgoing setting remote_max_debt, and nothing else;
\* MAX_FUNDER_DEBT + 1 and the larger values of AboveCeiling are rejected
\* with RemoteMaxDebtTooLarge and the state stays as it was.
C13_MaxDebtBoundary ==
    /\ process_operation(mc, SetRemoteMaxDebtOp(MAX_FUNDER_DEBT))
         = OkRes([mc EXCEPT !.local_max_debt = MAX_FUNDER_DEBT])
    /\ queue_operation(mc, SetRemoteMaxDebtOp(MAX_FUNDER_DEBT))
         = OkRes([mc EXCEPT !.remote_max_debt = MAX_FUNDER_DEBT])
    /\ \A v \in AboveCeiling :
         /\ process_operation(mc, SetRemoteMaxDebtOp(v))
              = ErrRes("RemoteMaxDebtTooLarge", mc)
         /\ queue_operation(mc, SetRemoteMaxDebtOp(v))
              = ErrRes("RemoteMaxDebtTooLarge", mc)
    /\ last.kind = "SetRemoteMaxDebt" =>
         /\ last.op.proposed_max_debt <= MAX_FUNDER_DEBT
         /\ mc = IF last.dir = "in"
                 THEN [last.pre EXCEPT
                         !.local_max_debt = last.op.proposed_max_debt]
                 ELSE [last.pre EXCEPT
                         !.remote_max_debt = last.op.proposed_max_debt]

\* The ceiling was accepted as the new limit, coming in, with credit frozen.
C13_Witness ==
    /\ LastIn("SetRemoteMaxDebt")
    /\ last.op.proposed_max_debt = MAX_FUNDER_DEBT
    /\ mc.local_max_debt = MAX_FUNDER_DEBT
    /\ last.pre.local_max_debt # MAX_FUNDER_DEBT
    /\ mc.local_pending_debt > 0

InI128(x) == I128_MIN <= x /\ x <= I128_MAX

\* The checks a request passes before any credit is computed.
ReachesCredits(dir, m, r) ==
    /\ is_valid(r.route)
    /\ r.dest_payment <= r.total_dest_payment
    /\ IF dir = "in"
       THEN /\ find_pk_pair(r.route, m.remote_public_key, m.local_public_key)
            /\ m.local_status = "Open"
       ELSE /\ find_pk_pair(r.route, m.local_public_key, m.remote_public_key)
            /\ m.remote_status = "Open"

\* dest_payment + left_fees does not fit u128.
FreezeOverflows(r) == r.dest_payment + r.left_fees > U128_MAX

\* The new pending debt does not fit u128.
DebtOverflows(dir, m, r) ==
    (IF dir = "in" THEN m.remote_pending_debt ELSE m.local_pending_debt)
      + r.dest_payment + r.left_fees > U128_MAX

\* A step of the signed trust computation does not fit i128.
TrustOverflows(dir, m, r) ==
    LET f == r.dest_payment + r.left_fees IN
    IF dir = "in"
    THEN \/ ~InI128(m.balance + m.remote_pending_debt + f)
         \/ ~InI128(m.balance + m.remote_pending_debt + f - m.remote_max_debt)
    ELSE \/ ~InI128(m.balance - (m.local_pending_debt + f))
         \/ ~InI128(m.balance - (m.local_pending_debt + f) + m.local_max_debt)

Overflows(dir, m, r) ==
    FreezeOverflows(r) \/ DebtOverflows(dir, m, r) \/ TrustOverflows(dir, m, r)

\* The answer res to a request r that overflows in ledger m: refused, the
\* ledger as it was, with CreditsCalcOverflow if it got to the computation.
OverflowRefused(dir, m, r, res) ==
    /\ ~res.ok
    /\ res.mc = m
    /\ ReachesCredits(dir, m, r) => res.err = "CreditsCalcOverflow"

\* C14: a request whose frozen credit, new pending debt or signed trust
\* computation overflows is rejected and the MutualCredit stays as it was;
\* the error is CreditsCalcOverflow whenever the request gets as far as the
\* computation; an accepted request adds exactly dest_payment + left_fees to
\* the pending debt.
C14_OverflowNeverSilent ==
    /\ \A dir \in {"in", "out"}, r \in RequestOps :
         Overflows(dir, mc, r) =>
            OverflowRefused(dir, mc, r, Apply(dir, mc, r))
    /\ last.kind = "RequestSendFunds" =>
         LET f == last.op.dest_payment + last.op.left_fees IN
         /\ ~Overflows(last.dir, last.pre, last.op)
         /\ mc.balance = last.pre.balance
         /\ mc.remote_pending_debt
              = last.pre.remote_pending_debt
                  + (IF last.dir = "in" THEN f ELSE 0)
         /\ mc.local_pending_debt
              = last.pre.local_pending_debt
                  + (IF last.dir = "out" THEN f ELSE 0)
         /\ mc.remote_pending_debt <= U128_MAX
         /\ mc.local_pending_debt <= U128_MAX

\* With credit frozen for the remote side only, there are requests that
\* get as far as the computation and overflow at each of its three places:
\* incoming ones in the frozen credit and the pending debt, outgoing ones in
\* the frozen credit and the signed computation.
C14_Witness ==
    /\ LastIn("RequestSendFunds")
    /\ mc.remote_pending_debt > 0
    /\ mc.local_pending_debt = 0
    /\ \A dir \in {"in", "out"} :
         \E r \in RequestOps :
           ReachesCredits(dir, mc, r) /\ FreezeOverflows(r)
    /\ \E r \in RequestOps :
         /\ ReachesCredits("in", mc, r)
         /\ ~FreezeOverflows(r)
         /\ DebtOverflows("in", mc, r)
    /\ \E r \in RequestOps :
         /\ ReachesCredits("out", mc, r)
         /\ ~DebtOverflows("out", mc, r)
         /\ TrustOverflows("out", mc, r)

\* ------------------------------------------- further claims on SpecTc

\* A token was received, and this is how it was answered.
Answered(tag) == lastrecv.tag = tag

NothingChanged ==
    /\ lastrecv.unchanged
    /\ lastrecv.mutations = <<>>
    /\ lastrecv.incoming_messages = <<>>

\* C15: in direction Incoming a validly signed move token equal to the
\* stored one is answered with Duplicate and the token channel is left as it
\* was; any other validly signed token is answered with ChainInconsistency.
C15_ReplayIsDuplicate ==
    (lastrecv.direction = "Incoming" /\ lastrecv.valid) =>
      /\ NothingChanged
      /\ IF lastrecv.same
         THEN Answered("Duplicate")
         ELSE Answered("Err") /\ lastrecv.err = "ChainInconsistency"

\* A token with operations in it, received before, came again.
C15_Witness ==
    /\ Answered("Duplicate")
    /\ lastrecv.direction = "Incoming"
    /\ lastrecv.same
    /\ lastrecv.operations # <<>>
    /\ tc.direction = "Incoming"
    /\ tc.token_channel = lastrecv.pre

\* The errors of outgoing_to_incoming.
ReplyErrors ==
    {"InvalidInconsistencyCounter", "MoveTokenCounterOverflow",
     "InvalidMoveTokenCounter", "InvalidStatedBalance", "InvalidTransaction"}

\* C16: in direction Outgoing a validly signed token whose old_token is our
\* new_token is processed as the reply; otherwise, if the old_token of our
\* outgoing token is the new_token of the incoming one, the answer is
\* RetransmitOutgoing with our stored outgoing token and nothing changes;
\* otherwise the answer is ChainInconsistency.
C16_OutgoingDispatch ==
    (lastrecv.direction = "Outgoing" /\ lastrecv.valid) =>
      IF lastrecv.answers
      THEN \/ Answered("Received") /\ ~lastrecv.unchanged
           \/ Answered("Err") /\ lastrecv.err \in ReplyErrors /\ NothingChanged
      ELSE IF lastrecv.lost
      THEN Answered("RetransmitOutgoing") /\ lastrecv.resent /\ NothingChanged
      ELSE Answered("Err") /\ lastrecv.err = "ChainInconsistency"
             /\ NothingChanged

\* The token we answered came again after our answer was sent.
C16_Witness ==
    /\ Answered("RetransmitOutgoing")
    /\ lastrecv.resent
    /\ lastrecv.lost
    /\ tc.direction = "Outgoing"
    /\ tc.friend_move_token.operations # <<>>

\* C19: a move token whose signature does not verify against the remote
\* public key is answered with InvalidSignature in either direction, whatever
\* else is true of it, and the token channel is left as it was.
C19_SignatureFirst ==
    (lastrecv.tag # "none" /\ ~lastrecv.valid) =>
      /\ Answered("Err")
      /\ lastrecv.err = "InvalidSignature"
      /\ NothingChanged

\* A token with operations in it that continues the chain of the outgoing
\* token, not signed by the remote side, was rejected.
C19_Witness ==
    /\ Answered("Err")
    /\ lastrecv.err = "InvalidSignature"
    /\ lastrecv.direction = "Outgoing"
    /\ lastrecv.chained
    /\ lastrecv.operations # <<>>

\* In direction Incoming the stored token itself came, not signed by the
\* remote side, and was rejected rather than taken for a duplicate.
C19_WitnessIncoming ==
    /\ Answered("Err")
    /\ lastrecv.err = "InvalidSignature"
    /\ lastrecv.direction = "Incoming"
    /\ lastrecv.same

\* C20: while the direction is Outgoing, begin_outgoing_move_token and
\* create_friend_move_token return None and get_outgoing_move_token returns
\* the stored token; while it is Incoming the first two succeed and there is
\* no outgoing token to resend.
C20_OnlyHolderSends ==
    LET creates == {create_friend_move_token(tc, ops, rn) :
                        ops \in {<<>>} \cup {<<op>> :
                                     op \in TcLocalOps(tc.token_channel)},
                        rn \in RandValues}
    IN IF tc.direction = "Outgoing"
       THEN /\ begin_outgoing_move_token(tc) = None
            /\ creates = {None}
            /\ get_outgoing_move_token(tc)
                 = Some([friend_move_token |-> tc.friend_move_token,
                         token_wanted |-> tc.token_wanted])
       ELSE /\ begin_outgoing_move_token(tc).some
            /\ \A c \in creates : c.some
            /\ get_outgoing_move_token(tc) = None

\* The local side sent a token with operations in it and has not been
\* answered: it can neither begin nor create another one.
C20_Witness ==
    /\ tc.direction = "Outgoing"
    /\ heard # NoToken
    /\ tc.friend_move_token.operations # <<>>
    /\ begin_outgoing_move_token(tc) = None
    /\ get_outgoing_move_token(tc).some

\* ------------------------------------------------------- channel reset

\* u64::MAX, at the scale of WidthBits.
U64_MAX == 2 ^ (WidthBits - 1) - 1

MaxResets == 1

\* TokenChannel::balance_for_reset: the balance once the requests of the
\* remote side that are still pending are taken as cancelled.
balance_for_reset(m) == checked_add_unsigned(m.balance, m.remote_pending_debt)

\* calc_channel_reset_token: the identity service signs
\* "RESET", new_token and balance_for_reset.
calc_channel_reset_token(new_token, bfr, identity) ==
    Sign(identity, <<"RESET", new_token, bfr>>)

\* DirectionalTc::get_inconsistency_counter
get_inconsistency_counter(dtc) == dtc.friend_move_token.inconsistency_counter

\* DirectionalTc::get_move_token_counter
get_move_token_counter(dtc) == dtc.friend_move_token.move_token_counter

\* Mutant of get_reset_terms: the terms carry the counter as it is.
get_reset_terms_same_counter(dtc) ==
    [reset_token |->
         calc_channel_reset_token(get_new_token(dtc),
                                  balance_for_reset(dtc.token_channel),
                                  dtc.token_channel.local_public_key),
     inconsistency_counter |->
         get_inconsistency_counter(dtc),
     balance_for_reset |-> balance_for_reset(dtc.token_channel)]
\* DirectionalTc::get_reset_terms (u64::wrapping_add on the counter)
get_reset_terms(dtc) ==
    [reset_token |->
         calc_channel_reset_token(get_new_token(dtc),
                                  balance_for_reset(dtc.token_channel),
                                  dtc.token_channel.local_public_key),
     inconsistency_counter |->
         (get_inconsistency_counter(dtc) + 1) % (U64_MAX + 1),
     balance_for_reset |-> balance_for_reset(dtc.token_channel)]

\* DirectionalTc::new_from_remote_reset
new_from_remote_reset(local_public_key, remote_public_key, reset_move_token, balance) ==
    [direction |-> "Incoming",
     friend_move_token |-> reset_move_token,
     token_wanted |-> FALSE,
     token_channel |->
         NewMutualCredit(local_public_key, remote_public_key, balance)]

\* DirectionalTc::new_from_local_reset
new_from_local_reset(local_public_key, remote_public_key, reset_move_token, balance) ==
    [direction |-> "Outgoing",
     friend_move_token |-> reset_move_token,
     token_wanted |-> FALSE,
     token_channel |->
         NewMutualCredit(local_public_key, remote_public_key, balance)]

\* The balances the two sides may agree on: the one of the local terms, or
\* the one of the remote terms when they state the opposite.
ResetBalances(terms) ==
    {terms.balance_for_reset, -(terms.balance_for_reset)}

\* The counters a reset move token may carry.
ResetCounters == {0, U128_MAX}

\* The synthetic initial move token of the new epoch: no operations, the
\* reset token as its old token, the counter of the terms, the agreed balance.
ResetMoveToken(terms, mtc, balance, signer) ==
    NewFriendMoveToken(<<>>, terms.reset_token, terms.inconsistency_counter,
                       mtc, balance, 0, 0,
                       rand_nonce_from_public_key(signer), signer)

\* An inconsistent channel is reset: the local side computes its reset terms
\* (get_reset_terms) and, once the terms agree, the channel is rebuilt from
\* the reset move token of the remote side (new_from_remote_reset) or from
\* its own (new_from_local_reset).  lastreset keeps the counter and the
\* balance_for_reset before the reset, those of the terms, whether anything
\* was pending, the agreed balance and which side's token rebuilt the channel.
\* The exchange of the new epoch is not followed further than replays.
TcReset ==
    /\ lastrecv.tag = "Err"
    /\ lastreset.count < MaxResets
    /\ balance_for_reset(tc.token_channel) # NoneInt
    /\ LET terms == get_reset_terms(tc)
           local == tc.token_channel.local_public_key
           remote == tc.token_channel.remote_public_key
       IN \E balance \in ResetBalances(terms), mtc \in ResetCounters,
             from \in {"remote", "local"} :
            /\ tc' = IF from = "remote"
                     THEN new_from_remote_reset(local, remote,
                              ResetMoveToken(terms, mtc, balance, remote),
                              balance)
                     ELSE new_from_local_reset(local, remote,
                              ResetMoveToken(terms, mtc, balance, local),
                              balance)
            /\ lastreset' =
                 [count |-> lastreset.count + 1,
                  from |-> from,
                  counter_before |-> get_inconsistency_counter(tc),
                  balance_before |-> tc.token_channel.balance,
                  remote_pending_debt_before |->
                      tc.token_channel.remote_pending_debt,
                  pending_before |->
                      \/ tc.token_channel.local_pending # EmptyMap
                      \/ tc.token_channel.remote_pending # EmptyMap,
                  token_before |-> get_new_token(tc),
                  terms |-> terms,
                  balance |-> balance]
    /\ heard' = NoToken
    /\ lastrecv' = NoRecv
    /\ tcsteps' = MaxTcSteps
    /\ UNCHANGED <<mcVars, pairVars, laterVars>>

\* The channels of a later epoch: rebuilt by a reset of a fresh channel, from
\* the reset move token of either side, with either counter.
RebuiltChannels ==
    LET terms == get_reset_terms(NewDirectionalTc("B", "A")) IN
    {new_from_remote_reset("B", "A", ResetMoveToken(terms, mtc, 0, "A"), 0) :
         mtc \in ResetCounters}
    \cup
    {new_from_local_reset("B", "A", ResetMoveToken(terms, mtc, 0, "B"), 0) :
         mtc \in ResetCounters}

\* A channel in its first epoch, or a rebuilt channel that has one token
\* left to exchange.
ResetInit ==
    /\ \/ tc = NewDirectionalTc("B", "A") /\ tcsteps = 0
       \/ tc \in RebuiltChannels /\ tcsteps = MaxTcSteps - 1
    /\ heard = NoToken
    /\ lastrecv = NoRecv
    /\ lastreset = NoReset
    /\ IdleMc
    /\ IdlePair
    /\ IdleLater

ResetNext == TcReceive \/ TcSend \/ TcReset

SpecReset == ResetInit /\ [][ResetNext]_vars

\* ------------------------------------------ claims on SpecReset

\* The local side created the stored token: heard is the token that was
\* stored when create_friend_move_token was called.
TokenCreated == tc.direction = "Outgoing" /\ heard # NoToken

\* The stored token is a reply that was accepted by the last receive.
ReplyAccepted == tc.direction = "Incoming" /\ lastrecv.tag = "Received"

\* C17: move_token_counter is strictly increasing within a consistency
\* epoch: a token made by create_friend_move_token carries the counter of the
\* token stored before it plus one, and an accepted reply carries ours plus
\* one with the same inconsistency_counter, also at the maximum counter.
C17_CounterStrictlyIncreasing ==
    /\ TokenCreated =>
          /\ get_move_token_counter(tc) = heard.move_token_counter + 1
          /\ get_inconsistency_counter(tc) = heard.inconsistency_counter
    /\ ReplyAccepted =>
          /\ get_move_token_counter(tc) = lastrecv.move_token_counter + 1
          /\ get_inconsistency_counter(tc) = lastrecv.inconsistency_counter

\* What does hold: an accepted reply always counts one up, and a created
\* token does unless the stored counter is at its maximum.
C17_IncreasingBelowMax ==
    /\ TokenCreated /\ heard.move_token_counter < U128_MAX =>
          /\ get_move_token_counter(tc) = heard.move_token_counter + 1
          /\ get_inconsistency_counter(tc) = heard.inconsistency_counter
    /\ ReplyAccepted =>
          /\ get_move_token_counter(tc) = lastrecv.move_token_counter + 1
          /\ get_inconsistency_counter(tc) = lastrecv.inconsistency_counter

\* At the maximum the created token carries counter 0.
C17_Wrapped ==
    /\ TokenCreated
    /\ heard.move_token_counter = U128_MAX
    /\ get_move_token_counter(tc) = 0

\* At the maximum a reply is refused with MoveTokenCounterOverflow.
C17_RefusedAtMax ==
    /\ lastrecv.tag = "Err"
    /\ lastrecv.err = "MoveTokenCounterOverflow"
    /\ lastrecv.move_token_counter = U128_MAX

\* The channel was rebuilt by the last step that changed it.
JustReset == lastreset.count > 0 /\ lastrecv.tag = "none" /\ heard = NoToken

AsCreated == tcsteps = 0 /\ lastrecv.tag = "none" /\ lastreset.count = 0

\* What DirectionalTc::new gives a node, whatever its direction: balance 0,
\* nothing pending, and a first token with no operations and counters 0.
StartsEmpty(dtc, local_pk, remote_pk) ==
    /\ dtc.token_channel = NewMutualCredit(local_pk, remote_pk, 0)
    /\ dtc.friend_move_token.operations = <<>>
    /\ dtc.friend_move_token.move_token_counter = 0
    /\ dtc.friend_move_token.inconsistency_counter = 0
    /\ dtc.friend_move_token.balance = 0
    /\ dtc.friend_move_token.local_pending_debt = 0
    /\ dtc.friend_move_token.remote_pending_debt = 0
    /\ ~dtc.token_wanted

\* C21: of two nodes with different key hashes that create the channel, the
\* one with the smaller hash starts in direction Outgoing and the other in
\* direction Incoming; both start with balance 0, counters 0 and a first
\* token without operations.
C21_InitialDirection ==
    /\ \A l \in PublicKeys, r \in PublicKeys :
         HashRank(l) < HashRank(r) =>
           LET lower == NewDirectionalTc(l, r)
               higher == NewDirectionalTc(r, l)
           IN /\ lower.direction = "Outgoing"
              /\ higher.direction = "Incoming"
              /\ StartsEmpty(lower, l, r)
              /\ StartsEmpty(higher, r, l)
    /\ AsCreated =>
         LET l == tc.token_channel.local_public_key
             r == tc.token_channel.remote_public_key
         IN /\ tc.direction = (IF HashRank(l) < HashRank(r)
                               THEN "Outgoing" ELSE "Incoming")
            /\ StartsEmpty(tc, l, r)

\* The node with the smaller hash has created the channel: it is in
\* direction Outgoing and may not send.
C21_Witness ==
    /\ AsCreated
    /\ HashRank(tc.token_channel.local_public_key)
         < HashRank(tc.token_channel.remote_public_key)
    /\ tc.direction = "Outgoing"
    /\ ~begin_outgoing_move_token(tc).some

\* ------------------------------------------------ app_server/server.rs

\* App connections accepted in one behaviour.
MaxApps == 2
\* Requests the apps send in one behaviour.
MaxAppRequests == 1
\* Reports the funder and the index client send of their own accord.
MaxReports == 1

AppRequestIds == 1 .. MaxAppRequests

\* AppPermissions of the apps that connect: no bit, one bit, all bits.
NewAppPermissions(routes, buyer, seller, config) ==
    [routes |-> routes, buyer |-> buyer, seller |-> seller, config |-> config]

AppPermissionsSet ==
    {NewAppPermissions(FALSE, FALSE, FALSE, FALSE),
     NewAppPermissions(TRUE, FALSE, FALSE, FALSE),
     NewAppPermissions(FALSE, TRUE, FALSE, FALSE),
     NewAppPermissions(FALSE, FALSE, TRUE, FALSE),
     NewAppPermissions(FALSE, FALSE, FALSE, TRUE),
     NewAppPermissions(TRUE, TRUE, TRUE, TRUE)}

\* The variants of AppRequest.
ConfigRequests ==
    {"AddRelay", "RemoveRelay", "AddFriend", "SetFriendRelays",
     "SetFriendName", "RemoveFriend", "EnableFriend", "DisableFriend",
     "OpenFriend", "CloseFriend", "SetFriendRemoteMaxDebt", "SetFriendRate",
     "ResetFriendChannel", "AddIndexServer", "RemoveIndexServer"}

BuyerRequests ==
    {"CreatePayment", "CreateTransaction", "RequestClosePayment",
     "AckClosePayment"}

SellerRequests == {"AddInvoice", "CancelInvoice", "CommitInvoice"}

RoutesRequests == {"RequestRoutes"}

AppRequestKinds ==
    ConfigRequests \cup BuyerRequests \cup SellerRequests \cup RoutesRequests

\* The requests that go to the index client; the others go to the funder.
IndexClientRequests == {"RequestRoutes", "AddIndexServer", "RemoveIndexServer"}

\* check_request_permissions
check_request_permissions(app_permissions, app_request) ==
    CASE app_request.kind \in {"AddRelay", "RemoveRelay"} ->
             app_permissions.config
      [] app_request.kind \in {"CreatePayment", "CreateTransaction",
                               "RequestClosePayment", "AckClosePayment"} ->
             app_permissions.buyer
      [] app_request.kind \in {"AddInvoice", "CancelInvoice",
                               "CommitInvoice"} ->
             app_permissions.seller
      [] app_request.kind \in {"AddFriend", "SetFriendRelays",
                               "SetFriendName", "RemoveFriend",
                               "EnableFriend", "DisableFriend", "OpenFriend",
                               "CloseFriend", "SetFriendRemoteMaxDebt",
                               "SetFriendRate", "ResetFriendChannel"} ->
             app_permissions.config
      [] app_request.kind = "RequestRoutes" -> app_permissions.routes
      [] app_request.kind \in {"AddIndexServer", "RemoveIndexServer"} ->
             app_permissions.config

\* The request ids of the transactions and routes the apps ask for.
TrackedRequestIds == {1}

\* The kinds of request the apps of the loop send: a kind for every
\* permission bit, kinds that go to the funder and kinds that go to the
\* index client, kinds that are tracked and kinds that are not.
LoopRequestKinds ==
    {"AddRelay", "AddIndexServer", "CreateTransaction", "AddInvoice",
     "RequestRoutes"}

\* The permissions of the apps of the loop: every bit is held by one and
\* lacked by the other.
LoopPermissions ==
    {NewAppPermissions(TRUE, TRUE, FALSE, FALSE),
     NewAppPermissions(FALSE, FALSE, TRUE, TRUE)}

\* AppToAppServer: a request of every kind under every app_request_id; the
\* requests that are tracked carry a request id.
AppRequest(kind) ==
    IF kind \in {"CreateTransaction", "RequestRoutes"}
    THEN {[kind |-> kind, request_id |-> id] : id \in TrackedRequestIds}
    ELSE {[kind |-> kind]}

AppMessages ==
    UNION {{[app_request_id |-> a, app_request |-> r] : r \in AppRequest(k)} :
               a \in AppRequestIds, k \in AppRequestKinds}

\* FunderControl made of an AppRequest (handle_app_message): the four
\* friend switches become SetFriendStatus and SetRequestsStatus.
FunderControlOf(app_request) ==
    CASE app_request.kind = "EnableFriend" ->
             [kind |-> "SetFriendStatus", status |-> "Enabled"]
      [] app_request.kind = "DisableFriend" ->
             [kind |-> "SetFriendStatus", status |-> "Disabled"]
      [] app_request.kind = "OpenFriend" ->
             [kind |-> "SetRequestsStatus", status |-> "Open"]
      [] app_request.kind = "CloseFriend" ->
             [kind |-> "SetRequestsStatus", status |-> "Closed"]
      [] OTHER -> app_request

\* FunderIncomingControl::new
FunderIncomingControl(app_request_id, funder_control) ==
    [app_request_id |-> app_request_id, funder_control |-> funder_control]

\* AppServerToIndexClient::AppRequest
IndexClientAppRequest(app_request_id, request) ==
    [kind |-> "AppRequest", app_request_id |-> app_request_id,
     request |-> request]

\* ---- reports

Friends == {"f"}

Relays == {"r"}

IndexServers == {"s"}

\* NodeReport: the report of the funder and that of the index client.
NodeReports ==
    [funder_report : [friends : SUBSET Friends, relays : SUBSET Relays],
     index_client_report : [index_servers : SUBSET IndexServers]]

FunderReportMutationsSet ==
    {[kind |-> "AddFriend", friend |-> f] : f \in Friends}
    \cup {[kind |-> "RemoveFriend", friend |-> f] : f \in Friends}
    \cup {[kind |-> "AddRelay", relay |-> r] : r \in Relays}
    \cup {[kind |-> "RemoveRelay", relay |-> r] : r \in Relays}

IndexClientReportMutationsSet ==
    {[kind |-> "AddIndexServer", server |-> x] : x \in IndexServers}
    \cup {[kind |-> "RemoveIndexServer", server |-> x] : x \in IndexServers}

\* FunderReport::mutate: Err for a friend added twice or removed when absent.
funder_report_mutate(report, mutation) ==
    CASE mutation.kind = "AddFriend" ->
             IF mutation.friend \in report.friends THEN None
             ELSE Some([report EXCEPT !.friends = @ \cup {mutation.friend}])
      [] mutation.kind = "RemoveFriend" ->
             IF mutation.friend \notin report.friends THEN None
             ELSE Some([report EXCEPT !.friends = @ \ {mutation.friend}])
      [] mutation.kind = "AddRelay" ->
             Some([report EXCEPT !.relays = @ \cup {mutation.relay}])
      [] mutation.kind = "RemoveRelay" ->
             Some([report EXCEPT !.relays = @ \ {mutation.relay}])

\* IndexClientReport::mutate
index_client_report_mutate(report, mutation) ==
    CASE mutation.kind = "AddIndexServer" ->
             Some([report EXCEPT !.index_servers = @ \cup {mutation.server}])
      [] mutation.kind = "RemoveIndexServer" ->
             Some([report EXCEPT !.index_servers = @ \ {mutation.server}])

\* NodeReportMutation::Funder / ::IndexClient
NodeReportMutation(of, mutation) == [of |-> of, mutation |-> mutation]

\* NodeReport::mutate
node_report_mutate(report, m) ==
    IF m.of = "Funder"
    THEN LET r == funder_report_mutate(report.funder_report, m.mutation) IN
         IF r.some THEN Some([report EXCEPT !.funder_report = r.value])
         ELSE None
    ELSE LET r == index_client_report_mutate(report.index_client_report,
                                             m.mutation) IN
         IF r.some THEN Some([report EXCEPT !.index_client_report = r.value])
         ELSE None

\* The mutations of a list applied in turn; None when one of them fails.
RECURSIVE MutateReport(_, _)
MutateReport(report, mutations) ==
    IF mutations = <<>> THEN Some(report)
    ELSE LET r == node_report_mutate(report, Head(mutations)) IN
         IF r.some THEN MutateReport(r.value, Tail(mutations)) ELSE None

\* funder_report_mutation_to_index_mutation: a change of a friend is one for
\* the index, a change of a relay is not.
funder_report_mutation_to_index_mutation(funder_report, mutation) ==
    CASE mutation.kind = "AddFriend" ->
             Some([kind |-> "UpdateFriend", friend |-> mutation.friend])
      [] mutation.kind = "RemoveFriend" ->
             Some([kind |-> "RemoveFriend", friend |-> mutation.friend])
      [] OTHER -> None

\* ReportMutations { opt_app_request_id, mutations }
ReportMutations(opt_app_request_id, mutations) ==
    [kind |-> "ReportMutations", opt_app_request_id |-> opt_app_request_id,
     mutations |-> mutations]

\* ---- AppServer

\* AppServer::new
NewAppServer(node_report) ==
    [node_report |-> node_report,
     incoming_connections_closed |-> FALSE,
     app_counter |-> 0,
     apps |-> EmptyMap,
     route_requests |-> EmptyMap,
     close_payment_requests |-> EmptyMap,
     transactions |-> EmptyMap]

\* NodeControl::recv: the report an app holds after it read a message.  A
\* Report is taken as it is; the mutations of a ReportMutations are applied
\* to the report held (unwrap); any other message leaves it as it is.
recv(report, message) ==
    CASE message.kind = "Report" -> Some(message.report)
      [] message.kind = "ReportMutations" ->
             IF report.some
             THEN MutateReport(report.value, message.mutations)
             ELSE None
      [] OTHER -> report

\* The app_request_id that a message echoes, if it echoes one.
Echo(message) ==
    IF message.kind = "ReportMutations" /\ message.opt_app_request_id.some
    THEN {message.opt_app_request_id.value}
    ELSE {}

\* The app end of a connection: the report the app holds once it has read,
\* in the order of sending, all it was sent, the app_request_ids of its
\* requests that it has not yet seen echoed (NodeControl::send waits for
\* the echo), and whether the app still holds the connection ("Open") or
\* has dropped it ("Dropped").  An app that dropped its connection holds
\* nothing and waits for nothing, and the connection is forgotten once the
\* server has been told of its end.  answers are the messages other than
\* reports that the app was sent, in the order of sending, and failed counts
\* the calls of sender.send on this connection that returned an error.
NewConn ==
    [report |-> None, waiting |-> {}, state |-> "Open", answers |-> <<>>,
     failed |-> 0]

\* The messages that carry the node report or its mutations.
IsReport(message) == message.kind \in {"Report", "ReportMutations"}

\* What a handler leaves behind: the server, the connections, what was sent
\* to the funder and to the index client, and what it returned.
Handled(srv, cs, tf, ti, ret) ==
    [server |-> srv, conns |-> cs, to_funder |-> tf, to_index |-> ti,
     ret |-> ret]

\* Mutant of AppSend: the sender is kept after a send that failed.
AppSend_sender_kept(h, app_id, message) ==
    IF ~h.server.apps[app_id].opt_sender THEN h
    ELSE IF h.conns[app_id].state = "Open"
    THEN [h EXCEPT !.conns[app_id].report = recv(@, message),
                   !.conns[app_id].waiting = @ \ Echo(message),
                   !.conns[app_id].answers =
                       IF IsReport(message) THEN @ ELSE Append(@, message)]
    ELSE [h EXCEPT !.conns[app_id].failed = @ + 1]

\* App::send to one app: a message to an app that dropped its connection is
\* lost and the sender is given up.
AppSend(h, app_id, message) ==
    IF ~h.server.apps[app_id].opt_sender THEN h
    ELSE IF h.conns[app_id].state = "Open"
    THEN [h EXCEPT !.conns[app_id].report = recv(@, message),
                   !.conns[app_id].waiting = @ \ Echo(message),
                   !.conns[app_id].answers =
                       IF IsReport(message) THEN @ ELSE Append(@, message)]
    ELSE [h EXCEPT !.server.apps[app_id].opt_sender = FALSE,
                   !.conns[app_id].failed = @ + 1]

\* AppServer::broadcast_node_report_mutations: App::send to every app.
RECURSIVE BroadcastTo(_, _, _)
BroadcastTo(h, app_ids, message) ==
    IF app_ids = {} THEN h
    ELSE LET a == CHOOSE x \in app_ids : \A y \in app_ids : x <= y IN
         BroadcastTo(AppSend(h, a, message), app_ids \ {a}, message)

broadcast_node_report_mutations(h, report_mutations) ==
    BroadcastTo(h, DOMAIN h.server.apps, report_mutations)

\* AppServer::handle_incoming_connection.  spawned: whether the task that
\* forwards the messages of the app could be spawned; conn: the app end of
\* the connection, which the app may have dropped already.
handle_incoming_connection(h, permissions, spawned, conn) ==
    IF ~spawned THEN [h EXCEPT !.ret = "SpawnError"]
    ELSE LET id == h.server.app_counter
             added == [h EXCEPT
                         !.server.apps =
                             MapInsert(@, id, [permissions |-> permissions,
                                            opt_sender |-> TRUE]),
                         !.conns = MapInsert(@, id, conn)]
             sent == AppSend(added, id,
                             [kind |-> "Report",
                              report |-> h.server.node_report])
         IN [sent EXCEPT !.server.app_counter = (@ + 1) % (U128_MAX + 1)]

\* AppServer::handle_incoming_connections_closed
handle_incoming_connections_closed(h) ==
    LET closed == [h EXCEPT !.server.incoming_connections_closed = TRUE] IN
    IF DOMAIN h.server.apps = {} THEN [closed EXCEPT !.ret = "AllAppsClosed"]
    ELSE closed

\* The index mutations of a list of funder report mutations, each computed
\* from the funder report as it is before the list is applied.
RECURSIVE IndexMutations(_, _)
IndexMutations(funder_report, mutations) ==
    IF mutations = <<>> THEN <<>>
    ELSE LET o == funder_report_mutation_to_index_mutation(
                      funder_report, Head(mutations))
             rest == IndexMutations(funder_report, Tail(mutations))
         IN IF o.some THEN <<o.value>> \o rest ELSE rest

\* Mutant of MutateAndBroadcast: the mutations are broadcast without the
\* app_request_id they came with.
MutateAndBroadcast_no_id(h, of, message) ==
    LET node_mutations ==
            [i \in DOMAIN message.mutations |->
                 NodeReportMutation(of, message.mutations[i])]
        mutated == MutateReport(h.server.node_report, node_mutations)
    IN IF ~mutated.some THEN [h EXCEPT !.ret = "Panic"]
       ELSE broadcast_node_report_mutations(
                [h EXCEPT !.server.node_report = mutated.value],
                ReportMutations(None, node_mutations))

\* Mutant of MutateAndBroadcast: the mutations are broadcast and the node
\* report of the server is left as it was.
MutateAndBroadcast_not_applied(h, of, message) ==
    LET node_mutations ==
            [i \in DOMAIN message.mutations |->
                 NodeReportMutation(of, message.mutations[i])]
        mutated == MutateReport(h.server.node_report, node_mutations)
    IN IF ~mutated.some THEN [h EXCEPT !.ret = "Panic"]
       ELSE broadcast_node_report_mutations(
                h, ReportMutations(message.opt_app_request_id, node_mutations))

\* The mutations of a report message applied to the node report one by one
\* (unwrap) and broadcast.
MutateAndBroadcast(h, of, message) ==
    LET node_mutations ==
            [i \in DOMAIN message.mutations |->
                 NodeReportMutation(of, message.mutations[i])]
        mutated == MutateReport(h.server.node_report, node_mutations)
    IN IF ~mutated.some THEN [h EXCEPT !.ret = "Panic"]
       ELSE broadcast_node_report_mutations(
                [h EXCEPT !.server.node_report = mutated.value],
                ReportMutations(message.opt_app_request_id, node_mutations))

\* Mutant of ForwardAnswer: the entry stays in its table.
ForwardAnswer_entry_kept(h, table, key, message) ==
    IF key \notin DOMAIN h.server[table] THEN h
    ELSE LET app_id == h.server[table][key]
         IN IF app_id \in DOMAIN h.server.apps
            THEN AppSend(h, app_id, message)
            ELSE h

\* The answer to a tracked request: the entry is taken out of its table and
\* the answer sent to the app that made the request, if there is one.
ForwardAnswer(h, table, key, message) ==
    IF key \notin DOMAIN h.server[table] THEN h
    ELSE LET app_id == h.server[table][key]
             removed == [h EXCEPT !.server[table] = MapRemove(@, key)]
         IN IF app_id \in DOMAIN h.server.apps
            THEN AppSend(removed, app_id, message)
            ELSE removed

\* AppServer::handle_from_funder.  index_alive: whether the index client
\* still takes what it is sent.
handle_from_funder(h, funder_message, index_alive) ==
    CASE funder_message.kind = "TransactionResult" ->
             ForwardAnswer(h, "transactions", funder_message.request_id,
                           funder_message)
      [] funder_message.kind = "ResponseClosePayment" ->
             ForwardAnswer(h, "close_payment_requests",
                           funder_message.payment_id, funder_message)
      [] funder_message.kind = "ReportMutations" ->
             LET index_mutations ==
                     IndexMutations(h.server.node_report.funder_report,
                                    funder_message.mutations)
                 sent == IF index_mutations = <<>> THEN h
                         ELSE [h EXCEPT !.to_index =
                                 Append(@, [kind |-> "ApplyMutations",
                                            mutations |-> index_mutations])]
             IN IF index_mutations # <<>> /\ ~index_alive
                THEN [h EXCEPT !.ret = "SendToIndexClientError"]
                ELSE MutateAndBroadcast(sent, "Funder", funder_message)

\* AppServer::handle_from_index_client
handle_from_index_client(h, index_client_message) ==
    CASE index_client_message.kind = "ReportMutations" ->
             MutateAndBroadcast(h, "IndexClient", index_client_message)
      [] index_client_message.kind = "ResponseRoutes" ->
             ForwardAnswer(h, "route_requests",
                           index_client_message.request_id,
                           index_client_message)

\* AppServer::check_app_permissions
check_app_permissions(srv, app_id, app_message) ==
    IF app_id \notin DOMAIN srv.apps THEN FALSE
    ELSE check_request_permissions(srv.apps[app_id].permissions,
                                   app_message.app_request)

\* Mutant of handle_app_message: the permissions are not looked at.
handle_app_message_unchecked(h, app_id, app_message, funder_alive, index_alive) ==
    IF FALSE THEN h
    ELSE LET app_request == app_message.app_request
             tracked ==
                 CASE app_request.kind = "CreateTransaction" ->
                          [h EXCEPT !.server.transactions =
                               MapInsert(@, app_request.request_id, app_id)]
                   [] app_request.kind = "RequestRoutes" ->
                          [h EXCEPT !.server.route_requests =
                               MapInsert(@, app_request.request_id, app_id)]
                   [] OTHER -> h
         IN IF app_request.kind \in IndexClientRequests
            THEN IF index_alive
                 THEN [tracked EXCEPT !.to_index =
                         Append(@, IndexClientAppRequest(
                                       app_message.app_request_id,
                                       app_request))]
                 ELSE [tracked EXCEPT !.ret = "SendToIndexClientError"]
            ELSE IF funder_alive
                 THEN [tracked EXCEPT !.to_funder =
                         Append(@, FunderIncomingControl(
                                       app_message.app_request_id,
                                       FunderControlOf(app_request)))]
                 ELSE [tracked EXCEPT !.ret = "SendToFunderError"]
\* Mutant of handle_app_message: a send that fails is not an error.
handle_app_message_send_ignored(h, app_id, app_message, funder_alive, index_alive) ==
    IF ~check_app_permissions(h.server, app_id, app_message) THEN h
    ELSE LET app_request == app_message.app_request
             tracked ==
                 CASE app_request.kind = "CreateTransaction" ->
                          [h EXCEPT !.server.transactions =
                               MapInsert(@, app_request.request_id, app_id)]
                   [] app_request.kind = "RequestRoutes" ->
                          [h EXCEPT !.server.route_requests =
                               MapInsert(@, app_request.request_id, app_id)]
                   [] OTHER -> h
         IN IF app_request.kind \in IndexClientRequests
            THEN IF index_alive
                 THEN [tracked EXCEPT !.to_index =
                         Append(@, IndexClientAppRequest(
                                       app_message.app_request_id,
                                       app_request))]
                 ELSE tracked
            ELSE IF funder_alive
                 THEN [tracked EXCEPT !.to_funder =
                         Append(@, FunderIncomingControl(
                                       app_message.app_request_id,
                                       FunderControlOf(app_request)))]
                 ELSE tracked

\* AppServer::handle_app_message.  funder_alive, index_alive: whether the
\* funder and the index client still take what they are sent.
handle_app_message(h, app_id, app_message, funder_alive, index_alive) ==
    IF ~check_app_permissions(h.server, app_id, app_message) THEN h
    ELSE LET app_request == app_message.app_request
             tracked ==
                 CASE app_request.kind = "CreateTransaction" ->
                          [h EXCEPT !.server.transactions =
                               MapInsert(@, app_request.request_id, app_id)]
                   [] app_request.kind = "RequestRoutes" ->
                          [h EXCEPT !.server.route_requests =
                               MapInsert(@, app_request.request_id, app_id)]
                   [] OTHER -> h
         IN IF app_request.kind \in IndexClientRequests
            THEN IF index_alive
                 THEN [tracked EXCEPT !.to_index =
                         Append(@, IndexClientAppRequest(
                                       app_message.app_request_id,
                                       app_request))]
                 ELSE [tracked EXCEPT !.ret = "SendToIndexClientError"]
            ELSE IF funder_alive
                 THEN [tracked EXCEPT !.to_funder =
                         Append(@, FunderIncomingControl(
                                       app_message.app_request_id,
                                       FunderControlOf(app_request)))]
                 ELSE [tracked EXCEPT !.ret = "SendToFunderError"]

\* Mutant of handle_from_app: the end of the last connection ends the
\* server, whether or not more connections may come.
handle_from_app_last_app_ends(h, app_id, opt_app_message, funder_alive, index_alive) ==
    IF ~opt_app_message.some
    THEN IF app_id \notin DOMAIN h.server.apps THEN [h EXCEPT !.ret = "Panic"]
         ELSE LET removed == [h EXCEPT !.server.apps = MapRemove(@, app_id)]
              IN IF DOMAIN removed.server.apps = {}
                 THEN [removed EXCEPT !.ret = "AllAppsClosed"]
                 ELSE removed
    ELSE handle_app_message(h, app_id, opt_app_message.value,
                            funder_alive, index_alive)

\* AppServer::handle_from_app: None is the end of the connection.
handle_from_app(h, app_id, opt_app_message, funder_alive, index_alive) ==
    IF ~opt_app_message.some
    THEN IF app_id \notin DOMAIN h.server.apps THEN [h EXCEPT !.ret = "Panic"]
         ELSE LET removed == [h EXCEPT !.server.apps = MapRemove(@, app_id)]
              IN IF /\ DOMAIN removed.server.apps = {}
                    /\ removed.server.incoming_connections_closed
                 THEN [removed EXCEPT !.ret = "AllAppsClosed"]
                 ELSE removed
    ELSE handle_app_message(h, app_id, opt_app_message.value,
                            funder_alive, index_alive)

\* ---- node/node.rs, node/net_node.rs

\* The components that node() spawns, in the order of spawning.
Components == <<"channeler", "funder", "app_server", "index_client">>

ComponentNames == {Components[i] : i \in DOMAIN Components}

\* NodeError of a component that ended with an error (res? in node()).
NodeErrorOf(name) ==
    CASE name = "channeler" -> "NodeError::ChannelerError"
      [] name = "funder" -> "NodeError::FunderError"
      [] name = "app_server" -> "NodeError::AppServerError"
      [] name = "index_client" -> "NodeError::IndexClientError"

\* The node while it waits for the death of any component: all is spawned
\* and runs.
NodeAtSelect ==
    [pc |-> "select", db_key |-> "A", identity_key |-> "A",
     spawned |-> {"database", "pool"} \cup ComponentNames,
     components |-> [name \in ComponentNames |-> "Running"],
     ret |-> "Running"]

\* select! over the four handles at the end of node(): a component that has
\* ended is taken, its error returned if it ended with one (res?), and
\* Ok(()) otherwise.
NodeSelect ==
    /\ node.pc = "select"
    /\ node.ret = "Running"
    /\ \E name \in ComponentNames :
         /\ node.components[name] \in {"Ok", "Err"}
         /\ node' = [node EXCEPT
                       !.pc = "returned",
                       !.ret = IF node.components[name] = "Err"
                               THEN NodeErrorOf(name) ELSE "Ok"]

\* A component that was spawned ends, with Ok(()) or with an error.
ComponentEnds(name) ==
    /\ node.ret = "Running"
    /\ node.components[name] = "Running"
    /\ \E res \in {"Ok", "Err"} :
         node' = [node EXCEPT !.components[name] = res]

\* ---- app_server_loop and what surrounds it

\* The node reports the app server may start with.
InitialNodeReports ==
    {[funder_report |-> [friends |-> {}, relays |-> {}],
      index_client_report |-> [index_servers |-> {}]],
     [funder_report |-> [friends |-> Friends, relays |-> {}],
      index_client_report |-> [index_servers |-> IndexServers]]}

NoAppEvent ==
    [event |-> "none", app_id |-> 0, kind |-> "none",
     permissions |-> NewAppPermissions(FALSE, FALSE, FALSE, FALSE),
     known |-> FALSE, to_funder_changed |-> FALSE,
     to_index_changed |-> FALSE, tables_changed |-> FALSE,
     server_changed |-> FALSE, report_changed |-> FALSE,
     conns_changed |-> FALSE, echo |-> {},
     funder_alive |-> TRUE, index_alive |-> TRUE, send_failed |-> FALSE]

AppInit ==
    /\ \E r \in InitialNodeReports :
         /\ server = NewAppServer(r)
         /\ peers = [funder_alive |-> TRUE, index_alive |-> TRUE,
                     funder_report |-> r.funder_report,
                     index_client_report |-> r.index_client_report]
    /\ conns = EmptyMap
    /\ to_funder = <<>>
    /\ from_funder = <<>>
    /\ to_index = <<>>
    /\ from_index = <<>>
    /\ result = "Running"
    /\ applast = NoAppEvent
    /\ appsteps = [connections |-> 0, requests |-> 0, reports |-> 0]
    /\ node = NodeAtSelect
    /\ IdleMc
    /\ IdlePair
    /\ IdleTc
    /\ IdleRest

\* Nothing is on its way between the server and its peers.  The apps act at
\* such times: a connection is made, a request sent or a connection dropped
\* once what the server sent has been taken and what it was sent handled.
Quiet ==
    /\ to_funder = <<>>
    /\ from_funder = <<>>
    /\ to_index = <<>>
    /\ from_index = <<>>

\* The state a handler starts from.
Handling == Handled(server, conns, to_funder, to_index, "Running")

\* The loop has handled an event: the handler's state is adopted, its
\* result is the loop's if it is an error, and applast keeps what changed.
Adopt(h, event, app_id, kind, echoed) ==
    /\ server' = h.server
    /\ conns' = h.conns
    /\ to_funder' = h.to_funder
    /\ to_index' = h.to_index
    /\ result' = h.ret
    /\ node' = IF h.ret = "Running" THEN node
               ELSE [node EXCEPT !.components["app_server"] = "Err"]
    /\ applast' =
         [event |-> event, app_id |-> app_id, kind |-> kind,
          permissions |-> IF app_id \in DOMAIN server.apps
                          THEN server.apps[app_id].permissions
                          ELSE NoAppEvent.permissions,
          known |-> app_id \in DOMAIN server.apps,
          to_funder_changed |-> h.to_funder # to_funder,
          to_index_changed |-> h.to_index # to_index,
          tables_changed |->
              \/ h.server.transactions # server.transactions
              \/ h.server.route_requests # server.route_requests
              \/ h.server.close_payment_requests
                   # server.close_payment_requests,
          server_changed |-> h.server # server,
          report_changed |-> h.server.node_report # server.node_report,
          conns_changed |-> h.conns # conns,
          echo |-> echoed,
          funder_alive |-> peers.funder_alive,
          index_alive |-> peers.index_alive,
          send_failed |->
              \E a \in DOMAIN conns :
                 /\ a \in DOMAIN h.conns
                 /\ h.conns[a].failed > conns[a].failed]
    /\ appsteps' =
         [appsteps EXCEPT
            !.connections = IF event = "IncomingConnection" THEN @ + 1 ELSE @,
            !.requests = IF event = "FromApp" /\ kind \in AppRequestKinds
                         THEN @ + 1 ELSE @]

\* AppServerEvent::IncomingConnection
IncomingConnection ==
    /\ result = "Running"
    /\ Quiet
    /\ ~server.incoming_connections_closed
    /\ appsteps.connections < MaxApps
    /\ \E permissions \in LoopPermissions, spawned \in BOOLEAN :
         Adopt(handle_incoming_connection(
                   Handling, permissions, spawned, NewConn),
               "IncomingConnection", server.app_counter, "none", {})
    /\ UNCHANGED <<from_funder, from_index, peers>>

\* AppServerEvent::IncomingConnectionsClosed
IncomingConnectionsClosed ==
    /\ result = "Running"
    /\ Quiet
    /\ ~server.incoming_connections_closed
    /\ Adopt(handle_incoming_connections_closed(Handling),
             "IncomingConnectionsClosed", 0, "none", {})
    /\ UNCHANGED <<from_funder, from_index, peers>>

\* AppServerEvent::FromApp with a message: an app that holds its connection
\* sends a request, under an app_request_id of its own, and waits for the
\* echo of the id if the request was sent on.
FromApp ==
    /\ result = "Running"
    /\ Quiet
    /\ appsteps.requests < MaxAppRequests
    /\ \E app_id \in DOMAIN conns, k \in LoopRequestKinds :
         \E r \in AppRequest(k) :
           /\ conns[app_id].state = "Open"
           /\ LET id == appsteps.requests + 1
                  h == handle_from_app(
                           Handling, app_id,
                           Some([app_request_id |-> id, app_request |-> r]),
                           peers.funder_alive, peers.index_alive)
                  sent == h.to_funder # to_funder \/ h.to_index # to_index
              IN Adopt(IF sent
                       THEN [h EXCEPT !.conns[app_id].waiting = @ \cup {id}]
                       ELSE h,
                       "FromApp", app_id, k, {})
    /\ UNCHANGED <<from_funder, from_index, peers>>

\* AppServerEvent::FromApp with None: the connection of an app has ended.
FromAppClosed ==
    /\ result = "Running"
    /\ \E app_id \in DOMAIN conns :
         /\ conns[app_id].state = "Dropped"
         /\ LET h == handle_from_app(Handling, app_id, None,
                                     peers.funder_alive, peers.index_alive)
            IN Adopt([h EXCEPT !.conns = MapRemove(@, app_id)],
                     "FromApp", app_id, "none", {})
    /\ UNCHANGED <<from_funder, from_index, peers>>

\* AppServerEvent::FromFunder
FromFunder ==
    /\ result = "Running"
    /\ from_funder # <<>>
    /\ LET message == Head(from_funder)
           for_index ==
               /\ message.kind = "ReportMutations"
               /\ IndexMutations(server.node_report.funder_report,
                                 message.mutations) # <<>>
       IN Adopt(handle_from_funder(Handling, message, peers.index_alive),
                "FromFunder", 0,
                IF for_index THEN "FriendMutations" ELSE message.kind,
                Echo(message))
    /\ from_funder' = Tail(from_funder)
    /\ UNCHANGED <<from_index, peers>>

\* AppServerEvent::FunderClosed: the stream of the funder has ended.
FunderClosed ==
    /\ result = "Running"
    /\ ~peers.funder_alive
    /\ from_funder = <<>>
    /\ Adopt([Handling EXCEPT !.ret = "FunderClosed"],
             "FunderClosed", 0, "none", {})
    /\ UNCHANGED <<from_funder, from_index, peers>>

\* AppServerEvent::FromIndexClient
FromIndexClient ==
    /\ result = "Running"
    /\ from_index # <<>>
    /\ Adopt(handle_from_index_client(Handling, Head(from_index)),
             "FromIndexClient", 0, "none", Echo(Head(from_index)))
    /\ from_index' = Tail(from_index)
    /\ UNCHANGED <<from_funder, peers>>

\* AppServerEvent::IndexClientClosed
IndexClientClosed ==
    /\ result = "Running"
    /\ ~peers.index_alive
    /\ from_index = <<>>
    /\ Adopt([Handling EXCEPT !.ret = "IndexClientClosed"],
             "IndexClientClosed", 0, "none", {})
    /\ UNCHANGED <<from_funder, from_index, peers>>

\* An app drops its connection.
AppDrops ==
    /\ result = "Running"
    /\ Quiet
    /\ \E app_id \in DOMAIN conns :
         /\ conns[app_id].state = "Open"
         /\ conns' = [conns EXCEPT ![app_id] =
                                      [report |-> None, waiting |-> {},
                                       state |-> "Dropped",
                                       answers |-> <<>>, failed |-> 0]]
    /\ UNCHANGED <<server, to_funder, from_funder, to_index, from_index,
                   peers, result, appsteps>>
    /\ applast' = NoAppEvent
    /\ UNCHANGED node

\* The mutations with which the funder answers a request: a relay added
\* is reported, the other requests of the loop change nothing in the report.
FunderAnswer(funder_control) ==
    IF funder_control.kind = "AddRelay"
    THEN <<[kind |-> "AddRelay", relay |-> CHOOSE r \in Relays : TRUE]>>
    ELSE <<>>

\* The mutations with which the index client answers a request.
IndexClientAnswer(request) ==
    IF request.kind = "AddIndexServer"
    THEN <<[kind |-> "AddIndexServer",
            server |-> CHOOSE x \in IndexServers : TRUE]>>
    ELSE <<>>

\* The changes the funder reports of its own accord: a friend that it has
\* not is added, a friend that it has is removed.
FunderChanges(funder_report) ==
    {<<m>> : m \in {x \in FunderReportMutationsSet :
                       /\ x.kind \in {"AddFriend", "RemoveFriend"}
                       /\ funder_report_mutate(funder_report, x).some}}

\* The changes the index client reports of its own accord.
IndexClientChanges ==
    {<<m>> : m \in {x \in IndexClientReportMutationsSet :
                       x.kind = "RemoveIndexServer"}}

\* The report after a list of mutations that it can take.
FunderReportAfter(funder_report, mutations) ==
    IF mutations = <<>> THEN funder_report
    ELSE funder_report_mutate(funder_report, mutations[1]).value

IndexClientReportAfter(report, mutations) ==
    IF mutations = <<>> THEN report
    ELSE index_client_report_mutate(report, mutations[1]).value

\* The funder takes a request and answers: report mutations that carry the
\* app_request_id, and the result of a transaction or of closing a payment.
FunderTakes ==
    /\ result = "Running"
    /\ peers.funder_alive
    /\ to_funder # <<>>
    /\ LET c == Head(to_funder) IN
       LET mutations == FunderAnswer(c.funder_control) IN
         /\ from_funder' =
              Append(from_funder,
                     ReportMutations(Some(c.app_request_id), mutations))
              \o (CASE c.funder_control.kind = "CreateTransaction" ->
                         <<[kind |-> "TransactionResult",
                            request_id |-> c.funder_control.request_id]>>
                    [] c.funder_control.kind = "RequestClosePayment" ->
                         <<[kind |-> "ResponseClosePayment",
                            payment_id |-> 1]>>
                    [] OTHER -> <<>>)
         /\ peers' = [peers EXCEPT !.funder_report =
                                     FunderReportAfter(@, mutations)]
    /\ to_funder' = Tail(to_funder)
    /\ UNCHANGED <<server, conns, to_index, from_index, result, appsteps>>
    /\ applast' = NoAppEvent
    /\ UNCHANGED node

\* The funder reports a change that no app asked for.
FunderReports ==
    /\ result = "Running"
    /\ peers.funder_alive
    /\ appsteps.reports < MaxReports
    /\ \E mutations \in FunderChanges(peers.funder_report) :
         /\ from_funder' = Append(from_funder, ReportMutations(None, mutations))
         /\ peers' = [peers EXCEPT !.funder_report =
                                     FunderReportAfter(@, mutations)]
    /\ appsteps' = [appsteps EXCEPT !.reports = @ + 1]
    /\ UNCHANGED <<server, conns, to_funder, to_index, from_index, result>>
    /\ applast' = NoAppEvent
    /\ UNCHANGED node

\* The funder ends with an error: it takes nothing more and its stream
\* closes.
FunderDies ==
    /\ result = "Running"
    /\ peers.funder_alive
    /\ peers' = [peers EXCEPT !.funder_alive = FALSE]
    /\ node' = [node EXCEPT !.components["funder"] = "Err"]
    /\ UNCHANGED <<server, conns, to_funder, from_funder, to_index,
                   from_index, result, appsteps>>
    /\ applast' = NoAppEvent

\* The index client takes what it was sent: index mutations need no answer,
\* a request is answered with report mutations that carry its
\* app_request_id, and a request for routes with the routes as well.
IndexClientTakes ==
    /\ result = "Running"
    /\ peers.index_alive
    /\ to_index # <<>>
    /\ LET c == Head(to_index) IN
       IF c.kind = "ApplyMutations"
       THEN UNCHANGED <<from_index, peers>>
       ELSE LET mutations == IndexClientAnswer(c.request) IN
              /\ from_index' =
                   Append(from_index,
                          ReportMutations(Some(c.app_request_id), mutations))
                   \o (IF c.request.kind = "RequestRoutes"
                       THEN <<[kind |-> "ResponseRoutes",
                               request_id |-> c.request.request_id]>>
                       ELSE <<>>)
              /\ peers' = [peers EXCEPT !.index_client_report =
                                          IndexClientReportAfter(@, mutations)]
    /\ to_index' = Tail(to_index)
    /\ UNCHANGED <<server, conns, to_funder, from_funder, result, appsteps>>
    /\ applast' = NoAppEvent
    /\ UNCHANGED node

\* The index client reports a change that no app asked for.
IndexClientReports ==
    /\ result = "Running"
    /\ peers.index_alive
    /\ appsteps.reports < MaxReports
    /\ \E mutations \in IndexClientChanges :
         /\ from_index' = Append(from_index, ReportMutations(None, mutations))
         /\ peers' = [peers EXCEPT !.index_client_report =
                                     IndexClientReportAfter(@, mutations)]
    /\ appsteps' = [appsteps EXCEPT !.reports = @ + 1]
    /\ UNCHANGED <<server, conns, to_funder, from_funder, to_index, result>>
    /\ applast' = NoAppEvent
    /\ UNCHANGED node

\* The index client ends with an error.
IndexClientDies ==
    /\ result = "Running"
    /\ peers.index_alive
    /\ peers' = [peers EXCEPT !.index_alive = FALSE]
    /\ node' = [node EXCEPT !.components["index_client"] = "Err"]
    /\ UNCHANGED <<server, conns, to_funder, from_funder, to_index,
                   from_index, result, appsteps>>
    /\ applast' = NoAppEvent

\* The loop with its apps and with peers that go on for ever.
AppNext ==
    \/ (IncomingConnection /\ UNCHANGED <<mcVars, pairVars, tcVars, restVars>>)
    \/ (IncomingConnectionsClosed /\ UNCHANGED <<mcVars, pairVars, tcVars, restVars>>)
    \/ (FromApp /\ UNCHANGED <<mcVars, pairVars, tcVars, restVars>>)
    \/ (FromAppClosed /\ UNCHANGED <<mcVars, pairVars, tcVars, restVars>>)
    \/ (AppDrops /\ UNCHANGED <<mcVars, pairVars, tcVars, restVars>>)
    \/ (FromFunder /\ UNCHANGED <<mcVars, pairVars, tcVars, restVars>>)
    \/ (FromIndexClient /\ UNCHANGED <<mcVars, pairVars, tcVars, restVars>>)
    \/ (FunderTakes /\ UNCHANGED <<mcVars, pairVars, tcVars, restVars>>)
    \/ (FunderReports /\ UNCHANGED <<mcVars, pairVars, tcVars, restVars>>)
    \/ (IndexClientTakes /\ UNCHANGED <<mcVars, pairVars, tcVars, restVars>>)
    \/ (IndexClientReports /\ UNCHANGED <<mcVars, pairVars, tcVars, restVars>>)

SpecApp == AppInit /\ [][AppNext]_vars

\* The loop with apps that stay and with peers that may end, in a node that
\* waits for the death of any of its components.  Nothing goes on once the
\* node has returned.
AppFailNext ==
    \/ (node.ret = "Running" /\ IncomingConnection /\ UNCHANGED <<mcVars, pairVars, tcVars, restVars>>)
    \/ (node.ret = "Running" /\ FromApp /\ UNCHANGED <<mcVars, pairVars, tcVars, restVars>>)
    \/ (node.ret = "Running" /\ FromFunder /\ UNCHANGED <<mcVars, pairVars, tcVars, restVars>>)
    \/ (node.ret = "Running" /\ FromIndexClient /\ UNCHANGED <<mcVars, pairVars, tcVars, restVars>>)
    \/ (node.ret = "Running" /\ FunderTakes /\ UNCHANGED <<mcVars, pairVars, tcVars, restVars>>)
    \/ (node.ret = "Running" /\ FunderReports /\ UNCHANGED <<mcVars, pairVars, tcVars, restVars>>)
    \/ (node.ret = "Running" /\ IndexClientTakes /\ UNCHANGED <<mcVars, pairVars, tcVars, restVars>>)
    \/ (node.ret = "Running" /\ FunderDies /\ UNCHANGED <<mcVars, pairVars, tcVars, restVars>>)
    \/ (node.ret = "Running" /\ FunderClosed /\ UNCHANGED <<mcVars, pairVars, tcVars, restVars>>)
    \/ (node.ret = "Running" /\ IndexClientDies /\ UNCHANGED <<mcVars, pairVars, tcVars, restVars>>)
    \/ (node.ret = "Running" /\ IndexClientClosed /\ UNCHANGED <<mcVars, pairVars, tcVars, restVars>>)
    \/ (ComponentEnds("channeler") /\ UNCHANGED <<mcVars, pairVars, tcVars, appVars, restVars>>)
    \/ (NodeSelect /\ UNCHANGED <<mcVars, pairVars, tcVars, appVars, restVars>>)

SpecAppFail == AppInit /\ [][AppFailNext]_vars

\* The steps that take the head of a queue.  Those of FromFunder are the
\* steps that take the head of from_funder, and FromFunder is enabled
\* exactly when there is a head to take while the loop runs; likewise
\* FromIndexClient and from_index, FunderTakes and to_funder,
\* IndexClientTakes and to_index.
TakesFromFunder ==
    /\ result = "Running"
    /\ from_funder # <<>>
    /\ from_funder' = Tail(from_funder)

TakesFromIndexClient ==
    /\ result = "Running"
    /\ from_index # <<>>
    /\ from_index' = Tail(from_index)

FunderTakesHead ==
    /\ result = "Running"
    /\ peers.funder_alive
    /\ to_funder # <<>>
    /\ to_funder' = Tail(to_funder)

IndexClientTakesHead ==
    /\ result = "Running"
    /\ peers.index_alive
    /\ to_index # <<>>
    /\ to_index' = Tail(to_index)

\* The loop with apps that stay and peers that go on for ever, each of which
\* takes in the end what it is sent, as the loop takes in the end what its
\* peers send: the funder and the index client are tasks that read their
\* channels in a loop, and the select of app_server_loop yields every
\* message of a stream that has one.
AppLiveNext ==
    \/ (IncomingConnection /\ UNCHANGED <<mcVars, pairVars, tcVars, restVars>>)
    \/ (FromApp /\ UNCHANGED <<mcVars, pairVars, tcVars, restVars>>)
    \/ (FromFunder /\ UNCHANGED <<mcVars, pairVars, tcVars, restVars>>)
    \/ (FromIndexClient /\ UNCHANGED <<mcVars, pairVars, tcVars, restVars>>)
    \/ (FunderTakes /\ UNCHANGED <<mcVars, pairVars, tcVars, restVars>>)
    \/ (FunderReports /\ UNCHANGED <<mcVars, pairVars, tcVars, restVars>>)
    \/ (IndexClientTakes /\ UNCHANGED <<mcVars, pairVars, tcVars, restVars>>)
    \/ (IndexClientReports /\ UNCHANGED <<mcVars, pairVars, tcVars, restVars>>)

SpecAppLive ==
    /\ AppInit
    /\ [][AppLiveNext]_vars
    /\ WF_from_funder(TakesFromFunder)
    /\ WF_from_index(TakesFromIndexClient)
    /\ WF_to_funder(FunderTakesHead)
    /\ WF_to_index(IndexClientTakesHead)

\* ---- claims on the app server

\* The permission bit that a kind of request requires.
RequiredPermission(kind) ==
    CASE kind \in ConfigRequests -> "config"
      [] kind \in BuyerRequests -> "buyer"
      [] kind \in SellerRequests -> "seller"
      [] kind \in RoutesRequests -> "routes"

\* The event handled last was a request of an app that does not hold the
\* permission bit the request requires.
LacksPermission ==
    /\ applast.event = "FromApp"
    /\ applast.kind \in AppRequestKinds
    /\ applast.known
    /\ ~applast.permissions[RequiredPermission(applast.kind)]

\* C22: a request whose kind requires a permission bit that the sending app
\* does not have is dropped: nothing is sent to the funder or to the index
\* client, none of transactions, route_requests and close_payment_requests
\* changes, and handle_from_app returns Ok, so that the loop goes on.  Every
\* kind of request is let through exactly when the app holds the bit of
\* its kind.
C22_Dropped ==
    /\ appsteps.connections = 0 =>
         \A p \in AppPermissionsSet, k \in AppRequestKinds :
           \A r \in AppRequest(k) :
             check_request_permissions(p, r) = p[RequiredPermission(k)]
    /\ LacksPermission =>
          /\ ~applast.to_funder_changed
          /\ ~applast.to_index_changed
          /\ ~applast.tables_changed
          /\ ~applast.server_changed
          /\ result = "Running"

\* A transaction asked for without the buyer bit by an app that is not the
\* only one: a request that was let through would have changed transactions
\* and would have been sent to the funder.
C22_Witness ==
    /\ LacksPermission
    /\ applast.kind = "CreateTransaction"
    /\ Cardinality(DOMAIN server.apps) = MaxApps
    /\ result = "Running"

\* The apps that are connected: the server has their sender and they hold
\* their end of the connection.
ConnectedApps ==
    {app_id \in DOMAIN server.apps :
        /\ server.apps[app_id].opt_sender
        /\ app_id \in DOMAIN conns
        /\ conns[app_id].state = "Open"}

\* C23: an app that takes the Report it is sent on connection and applies to
\* it the mutations it is sent afterwards, in the order of sending, holds a
\* report equal to the node_report of the server, whatever the funder and
\* the index client have reported since; the server itself has applied every
\* mutation that reached it, so that its node_report is the report of the
\* funder and of the index client once nothing of theirs is on its way; no
\* mutation fails to apply.
C23_ReportReconstructed ==
    /\ \A app_id \in ConnectedApps :
         conns[app_id].report = Some(server.node_report)
    /\ from_funder = <<>> =>
         server.node_report.funder_report = peers.funder_report
    /\ from_index = <<>> =>
         server.node_report.index_client_report = peers.index_client_report
    /\ result # "Panic"

\* The report of the server has just changed by mutations of the funder or
\* of the index client, with MaxApps apps connected, not all of which
\* connected when the report was the same.
C23_Witness ==
    /\ applast.event \in {"FromFunder", "FromIndexClient"}
    /\ applast.report_changed
    /\ Cardinality(ConnectedApps) = MaxApps
    /\ appsteps.reports > 0
    /\ appsteps.requests > 0
    /\ \A app_id \in ConnectedApps :
         conns[app_id].report = Some(server.node_report)

\* The app ids of a behaviour.
AppIds == 0 .. (MaxApps - 1)

\* The app waits for the echo of the id of a request that was sent on.
Waits(app_id, id) ==
    /\ app_id \in DOMAIN conns
    /\ id \in conns[app_id].waiting

HoldsPermission ==
    /\ applast.event = "FromApp"
    /\ applast.kind \in AppRequestKinds
    /\ applast.known
    /\ applast.permissions[RequiredPermission(applast.kind)]

\* The components of the node that have ended.
Ended == {name \in ComponentNames : node.components[name] \in {"Ok", "Err"}}

\* C28: a failure of the transport ends app_server_loop with the error of
\* its kind: a permitted request that cannot be sent to the funder gives
\* SendToFunderError, one that cannot be sent to the index client gives
\* SendToIndexClientError, as do mutations of friends that cannot be passed
\* on to the index client, and the end of the stream of the funder or of the
\* index client gives FunderClosed or IndexClientClosed; the loop goes on
\* when the send succeeds.  The node returns once a component has ended and
\* not before: its wait is over whenever one has ended, and what it returns
\* is the error of a component that ended with one, or Ok.
C28_TransportFatal ==
    /\ HoldsPermission =>
         IF applast.kind \in IndexClientRequests
         THEN result = IF applast.index_alive THEN "Running"
                       ELSE "SendToIndexClientError"
         ELSE result = IF applast.funder_alive THEN "Running"
                       ELSE "SendToFunderError"
    /\ applast.event = "FromFunder" /\ applast.kind = "FriendMutations" =>
         result = IF applast.index_alive THEN "Running"
                  ELSE "SendToIndexClientError"
    /\ applast.event = "FunderClosed" =>
         result = "FunderClosed" /\ ~applast.funder_alive
    /\ applast.event = "IndexClientClosed" =>
         result = "IndexClientClosed" /\ ~applast.index_alive
    /\ result # "Running" <=> node.components["app_server"] = "Err"
    /\ node.ret = "Running" /\ Ended # {} => ENABLED NodeSelect
    /\ node.ret # "Running" =>
         \E name \in Ended :
            node.ret = IF node.components[name] = "Err"
                       THEN NodeErrorOf(name) ELSE "Ok"

\* A request could not be sent to the funder, the loop ended with
\* SendToFunderError and the node returned the error of the app server.
C28_Witness ==
    /\ HoldsPermission
    /\ ~applast.funder_alive
    /\ result = "SendToFunderError"
    /\ node.ret = "NodeError::AppServerError"

\* ---- net_node and node from their first line

\* The steps of net_node and, from "node_request_public_key" on, of node, in
\* the order of the code.
NodeStages ==
    <<"request_public_key", "check_identity", "spawn_database", "spawn_pool",
      "node_request_public_key", "spawn_channeler", "spawn_funder",
      "spawn_app_server", "spawn_index_client", "select">>

\* The step after a step.
NextStage(pc) ==
    LET i == CHOOSE j \in DOMAIN NodeStages : NodeStages[j] = pc
    IN NodeStages[i + 1]

\* What a step spawns, for the steps that spawn.
SpawnedAt(pc) ==
    CASE pc = "spawn_database" -> "database"
      [] pc = "spawn_pool" -> "pool"
      [] pc = "spawn_channeler" -> "channeler"
      [] pc = "spawn_funder" -> "funder"
      [] pc = "spawn_app_server" -> "app_server"
      [] pc = "spawn_index_client" -> "index_client"

SpawnStages ==
    {"spawn_database", "spawn_pool", "spawn_channeler", "spawn_funder",
     "spawn_app_server", "spawn_index_client"}

\* net_node is called with a database whose funder state was made for the
\* key db_key and with an identity service that holds identity_key.
NodeInit ==
    /\ \E db_key \in PublicKeys, identity_key \in PublicKeys :
         node = [pc |-> "request_public_key", db_key |-> db_key,
                 identity_key |-> identity_key,
                 local_public_key |-> None, spawned |-> {},
                 components |-> [name \in ComponentNames |-> "None"],
                 ret |-> "Running"]
    /\ IdleMc
    /\ IdlePair
    /\ IdleTc
    /\ IdleApp
    /\ IdleRest

\* net_node ends with an error.
NodeReturns(error) == [node EXCEPT !.pc = "returned", !.ret = error]

\* identity_client.request_public_key() in net_node: the key of the
\* identity service, or RequestPublicKeyError.
NetRequestPublicKey ==
    /\ node.pc = "request_public_key"
    /\ \E ok \in BOOLEAN :
         node' = IF ok
                 THEN [node EXCEPT !.pc = NextStage(@),
                                   !.local_public_key =
                                       Some(node.identity_key)]
                 ELSE NodeReturns("NetNodeError::RequestPublicKeyError")

\* Mutant of CheckIdentity: the keys are not compared.
CheckIdentity_not_compared ==
    /\ node.pc = "check_identity"
    /\ node' = [node EXCEPT !.pc = NextStage(@)]

\* The local public key in the database must be the one of the identity.
CheckIdentity ==
    /\ node.pc = "check_identity"
    /\ node' = IF node.db_key # node.local_public_key.value
               THEN NodeReturns("NetNodeError::DatabaseIdentityMismatch")
               ELSE [node EXCEPT !.pc = NextStage(@)]

\* spawner.spawn / spawn_with_handle of the database service and of the pool
\* of app connections in net_node, and of the four components in node.
NodeSpawn ==
    /\ node.ret = "Running"
    /\ node.pc \in SpawnStages
    /\ \E ok \in BOOLEAN :
         node' =
           IF ~ok
           THEN NodeReturns(IF node.pc \in {"spawn_database", "spawn_pool"}
                            THEN "NetNodeError::SpawnError"
                            ELSE "NodeError::SpawnError")
           ELSE LET name == SpawnedAt(node.pc) IN
                [node EXCEPT
                   !.pc = NextStage(@),
                   !.spawned = @ \cup {name},
                   !.components =
                       IF name \in ComponentNames
                       THEN [@ EXCEPT ![name] = "Running"] ELSE @]

\* identity_client.request_public_key() in node.
NodeRequestPublicKey ==
    /\ node.pc = "node_request_public_key"
    /\ \E ok \in BOOLEAN :
         node' = IF ok THEN [node EXCEPT !.pc = NextStage(@)]
                 ELSE NodeReturns("NodeError::RequestPublicKeyError")

NodeNext ==
    \/ (NetRequestPublicKey /\ UNCHANGED <<mcVars, pairVars, tcVars, appVars, restVars>>)
    \/ (CheckIdentity /\ UNCHANGED <<mcVars, pairVars, tcVars, appVars, restVars>>)
    \/ (NodeSpawn /\ UNCHANGED <<mcVars, pairVars, tcVars, appVars, restVars>>)
    \/ (NodeRequestPublicKey /\ UNCHANGED <<mcVars, pairVars, tcVars, appVars, restVars>>)
    \/ (\E name \in ComponentNames : ComponentEnds(name) /\ UNCHANGED <<mcVars, pairVars, tcVars, appVars, restVars>>)
    \/ (NodeSelect /\ UNCHANGED <<mcVars, pairVars, tcVars, appVars, restVars>>)

SpecNode == NodeInit /\ [][NodeNext]_vars

\* What has been spawned when a step is reached.
SpawnedBefore(pc) ==
    {SpawnedAt(NodeStages[j]) :
        j \in {k \in DOMAIN NodeStages :
                 /\ NodeStages[k] \in SpawnStages
                 /\ k < (CHOOSE i \in DOMAIN NodeStages : NodeStages[i] = pc)}}

\* C27: when the key of the database differs from the key the identity
\* service returned, net_node returns DatabaseIdentityMismatch, and the
\* database service, the pool of app connections and the components of the
\* node have not been spawned; net_node gets past the comparison only with
\* equal keys, and what is spawned is spawned after it, in the order of the
\* code.
C27_IdentityMismatch ==
    /\ node.local_public_key.some /\ node.db_key # node.local_public_key.value
         => /\ node.spawned = {}
            /\ \A name \in ComponentNames : node.components[name] = "None"
            /\ \/ node.pc = "check_identity" /\ node.ret = "Running"
               \/ node.ret = "NetNodeError::DatabaseIdentityMismatch"
    /\ node.ret = "NetNodeError::DatabaseIdentityMismatch"
         => node.local_public_key.some /\ node.db_key # node.identity_key
    /\ node.pc \in {NodeStages[j] : j \in DOMAIN NodeStages}
         => node.spawned = SpawnedBefore(node.pc)

\* net_node returned DatabaseIdentityMismatch.
C27_Witness ==
    /\ node.ret = "NetNodeError::DatabaseIdentityMismatch"
    /\ node.db_key # node.identity_key
    /\ node.spawned = {}

\* ---- relay/client/client_listener.rs: the listener

\* IncomingConnection messages of the relay in one behaviour.
MaxIncoming == 2
\* Operations on the access control in one behaviour.
MaxAclOps == 2

\* The keys of the remote hosts that ask for a connection.
ListenerKeys == {"A", "B"}

\* AccessControl: the set of keys that are allowed; AccessControl::new()
\* allows none.
NewAccessControl == {}

AccessControlOps ==
    {[kind |-> k, public_key |-> pk] : k \in {"Add", "Remove"},
                                       pk \in ListenerKeys}

\* AccessControl::apply_op
apply_op(access_control, op) ==
    IF op.kind = "Add" THEN access_control \cup {op.public_key}
    ELSE access_control \ {op.public_key}

\* AccessControl::is_allowed
is_allowed(access_control, public_key) == public_key \in access_control

\* The messages of the listener to the relay.
InitConnectionListen == [kind |-> "Listen"]

InitConnectionAccept(public_key) ==
    [kind |-> "Accept", public_key |-> public_key]

RejectConnection(public_key) ==
    [kind |-> "RejectConnection", public_key |-> public_key]

NoListenerEvent == [event |-> "none", public_key |-> "", decision |-> ""]

\* The listener before inner_client_listener connects to the relay.
\*   main: what was sent on the main connection, in order;
\*   tasks: the accept_connection tasks spawned, each with the key it is
\*          for, the step it is at and the connection it opened, if any;
\*   opened: what was sent on each connection opened by a task, in order;
\*   pending_reject: the keys sent on the pending_reject channel and not
\*          yet received;
\*   lastop: for every key the last access control operation applied on it;
\*   aclops: the number of access control operations applied.
NewListener ==
    [pc |-> "connect", access_control |-> NewAccessControl, main |-> <<>>,
     tasks |-> <<>>, opened |-> <<>>, pending_reject |-> <<>>,
     lastop |-> [pk \in ListenerKeys |-> "none"], aclops |-> 0,
     incoming |-> 0, ret |-> "Running",
     last |-> NoListenerEvent]

ListenerInit ==
    /\ listener = NewListener
    /\ IdleMc
    /\ IdlePair
    /\ IdleTc
    /\ IdleApp
    /\ IdleNode
    /\ connect = <<>>
    /\ wire = <<>>
    /\ xchg = <<>>
    /\ funder = <<>>

\* inner_client_listener returns.
ListenerReturns(l, ret) == [l EXCEPT !.pc = "returned", !.ret = ret]

\* The start of inner_client_listener: the main connection is made and
\* InitConnection::Listen sent on it.
listener_start(l, connected, sent) ==
    IF ~connected THEN ListenerReturns(l, "ConnectionFailure")
    ELSE IF ~sent THEN ListenerReturns(l, "SendInitConnectionError")
    ELSE [l EXCEPT !.pc = "events", !.main = <<InitConnectionListen>>]

\* sender.send(RejectConnection { public_key }) on the main connection.
send_reject(l, public_key, sent) ==
    IF ~sent THEN ListenerReturns(l, "SendToServerError")
    ELSE [l EXCEPT !.main = Append(@, RejectConnection(public_key))]

\* Mutant of handle_server_message: every key is taken as allowed.
handle_server_message_all_allowed(l, public_key, sent, spawned) ==
    IF FALSE
    THEN send_reject(l, public_key, sent)
    ELSE IF ~spawned THEN ListenerReturns(l, "SpawnError")
    ELSE [l EXCEPT !.tasks = Append(@, [public_key |-> public_key,
                                        pc |-> "timer", opened |-> 0])]

\* ClientListenerEvent::ServerMessage
handle_server_message(l, public_key, sent, spawned) ==
    IF ~is_allowed(l.access_control, public_key)
    THEN send_reject(l, public_key, sent)
    ELSE IF ~spawned THEN ListenerReturns(l, "SpawnError")
    ELSE [l EXCEPT !.tasks = Append(@, [public_key |-> public_key,
                                        pc |-> "timer", opened |-> 0])]

\* What the listener remembers of the event it handled.
Handle(l, event, public_key) ==
    [l EXCEPT !.last =
        [event |-> event, public_key |-> public_key,
         decision |->
             CASE l.ret # "Running" -> l.ret
               [] Len(l.main) > Len(listener.main) -> "rejected"
               [] Len(l.tasks) > Len(listener.tasks) -> "spawned"
               [] OTHER -> ""]]

ListenerStart ==
    /\ listener.pc = "connect"
    /\ \E connected \in BOOLEAN, sent \in BOOLEAN :
         listener' = Handle(listener_start(listener, connected, sent),
                            "Start", "")

\* ClientListenerEvent::AccessControlOp
ListenerAccessControlOp ==
    /\ listener.pc = "events"
    /\ listener.aclops < MaxAclOps
    /\ \E op \in AccessControlOps :
         listener' =
             Handle([listener EXCEPT
                        !.access_control = apply_op(@, op),
                        !.lastop[op.public_key] = op.kind,
                        !.aclops = @ + 1],
                    "AccessControlOp", op.public_key)

\* ClientListenerEvent::ServerMessage
ListenerServerMessage ==
    /\ listener.pc = "events"
    /\ listener.incoming < MaxIncoming
    /\ \E public_key \in ListenerKeys, sent \in BOOLEAN, spawned \in BOOLEAN :
         listener' =
             Handle([handle_server_message(listener, public_key, sent,
                                           spawned)
                        EXCEPT !.incoming = @ + 1],
                    "ServerMessage", public_key)

\* ClientListenerEvent::PendingReject
ListenerPendingReject ==
    /\ listener.pc = "events"
    /\ listener.pending_reject # <<>>
    /\ \E sent \in BOOLEAN :
         listener' =
             Handle(send_reject([listener EXCEPT !.pending_reject = Tail(@)],
                                Head(listener.pending_reject), sent),
                    "PendingReject", Head(listener.pending_reject))

\* ClientListenerEvent::ServerClosed and ::AccessControlClosed
ListenerClosed ==
    /\ listener.pc = "events"
    /\ \E event \in {"ServerClosed", "AccessControlClosed"} :
         listener' = Handle(ListenerReturns(listener, "Ok"), event, "")

\* Mutant of task_gives_up: the task ends without sending its key.
task_gives_up_silent(l, i) ==
    [l EXCEPT !.tasks[i].pc = "done"]

\* pending_reject_sender.send(public_key) of a task that gives up: the key
\* reaches the listener if the listener still runs.
task_gives_up(l, i) ==
    LET done == [l EXCEPT !.tasks[i].pc = "done"] IN
    IF l.pc = "events"
    THEN [done EXCEPT !.pending_reject = Append(@, l.tasks[i].public_key)]
    ELSE done

\* One step of accept_connection.  ok: whether the step succeeds, which for
\* the step "connect" is whether connect_with_timeout returns a connection.
accept_connection_step(l, i, ok) ==
    LET task == l.tasks[i] IN
    CASE task.pc = "timer" ->
             IF ok THEN [l EXCEPT !.tasks[i].pc = "connect"]
             ELSE [l EXCEPT !.tasks[i].pc = "done"]
      [] task.pc = "connect" ->
             IF ok
             THEN [l EXCEPT !.opened = Append(@, <<>>),
                            !.tasks[i].opened = Len(l.opened) + 1,
                            !.tasks[i].pc = "send_accept"]
             ELSE task_gives_up(l, i)
      [] task.pc = "send_accept" ->
             IF ok
             THEN [l EXCEPT
                     !.opened[task.opened] =
                         Append(@, InitConnectionAccept(task.public_key)),
                     !.tasks[i].pc = "deliver"]
             ELSE task_gives_up(l, i)
      [] task.pc = "deliver" -> [l EXCEPT !.tasks[i].pc = "done"]

\* A task spawned by the listener takes a step.
AcceptConnectionStep ==
    \E i \in DOMAIN listener.tasks, ok \in BOOLEAN :
        /\ listener.tasks[i].pc # "done"
        /\ listener' = [accept_connection_step(listener, i, ok)
                           EXCEPT !.last = NoListenerEvent]

ListenerNext ==
    \/ (ListenerStart /\ UNCHANGED <<mcVars, pairVars, tcVars, appVars, nodeVars, connect, wire, xchg, funder>>)
    \/ (ListenerAccessControlOp /\ UNCHANGED <<mcVars, pairVars, tcVars, appVars, nodeVars, connect, wire, xchg, funder>>)
    \/ (ListenerServerMessage /\ UNCHANGED <<mcVars, pairVars, tcVars, appVars, nodeVars, connect, wire, xchg, funder>>)
    \/ (ListenerPendingReject /\ UNCHANGED <<mcVars, pairVars, tcVars, appVars, nodeVars, connect, wire, xchg, funder>>)
    \/ (ListenerClosed /\ UNCHANGED <<mcVars, pairVars, tcVars, appVars, nodeVars, connect, wire, xchg, funder>>)
    \/ (AcceptConnectionStep /\ UNCHANGED <<mcVars, pairVars, tcVars, appVars, nodeVars, connect, wire, xchg, funder>>)

SpecListener == ListenerInit /\ [][ListenerNext]_vars

\* Whether a key is allowed after the operations applied so far: the last
\* operation on the key is Add.
AllowedAfter(lastop, public_key) == lastop[public_key] = "Add"

\* C25: the first message of the listener on the main connection is
\* InitConnection::Listen and the others are RejectConnections.  An
\* IncomingConnection for a key that the access control does not allow,
\* after all the operations applied before it, is answered with
\* RejectConnection for the key on the main connection, and no task and no
\* connection is made for it; for a key that is allowed a task is spawned
\* that opens a new connection, and what is sent first on a connection
\* opened by a task is InitConnection::Accept for the key of the task.  No
\* IncomingConnection is answered with more than one RejectConnection.
C25_Admission ==
    /\ listener.main # <<>> => listener.main[1] = InitConnectionListen
    /\ listener.pc = "events" => listener.main # <<>>
    /\ \A i \in DOMAIN listener.main :
         i > 1 => listener.main[i].kind = "RejectConnection"
    /\ listener.last.event = "ServerMessage" =>
         IF AllowedAfter(listener.lastop, listener.last.public_key)
         THEN /\ listener.last.decision \in {"spawned", "SpawnError"}
              /\ listener.last.decision = "spawned" =>
                   listener.tasks[Len(listener.tasks)] =
                       [public_key |-> listener.last.public_key,
                        pc |-> "timer", opened |-> 0]
         ELSE /\ listener.last.decision \in {"rejected", "SendToServerError"}
              /\ listener.last.decision = "rejected" =>
                   listener.main[Len(listener.main)] =
                       RejectConnection(listener.last.public_key)
    /\ Len(listener.main) <= listener.incoming + 1
    /\ \A i \in DOMAIN listener.tasks :
         LET task == listener.tasks[i] IN
         /\ task.pc \in {"send_accept", "deliver"} => task.opened # 0
         /\ task.opened # 0 =>
              listener.opened[task.opened] \in
                  {<<>>, <<InitConnectionAccept(task.public_key)>>}
         /\ task.pc = "deliver" =>
              listener.opened[task.opened] =
                  <<InitConnectionAccept(task.public_key)>>
    /\ Len(listener.opened) <= Len(listener.tasks)

\* A key was rejected while it was not allowed, and later, after it was
\* added, a connection was opened for it and Accept sent on it.
C25_Witness ==
    /\ Len(listener.main) >= 2
    /\ Len(listener.tasks) = 1
    /\ \E i \in DOMAIN listener.tasks :
         /\ listener.tasks[i].pc = "deliver"
         /\ listener.main[2] = RejectConnection(listener.tasks[i].public_key)

\* ---- relay/client/client_listener.rs: connect_with_timeout

\* The largest conn_timeout_ticks; the timer sends one tick more at most.
MaxTicks == 2

\* connect_with_timeout is called: the connector has not completed, the
\* timer stream is open and empty.
\*   remaining: the ticks that take(conn_timeout_ticks) has yet to take;
\*   arrived:   the ticks in the timer stream that were not taken;
\*   received:  the ticks taken;
\*   work:      "pending", or what the connector has to return: "None" or
\*              "Some" (a connection);
\*   ret:       "Pending", or what connect_with_timeout returned;
\*   polled:    whether nothing has happened since the last poll.
NewConnect(conn_timeout_ticks) ==
    [conn_timeout_ticks |-> conn_timeout_ticks,
     remaining |-> conn_timeout_ticks, arrived |-> 0, received |-> 0,
     ticks |-> 0, timer_open |-> TRUE, work |-> "pending", ret |-> "Pending",
     polled |-> FALSE]

ConnectInit ==
    /\ \E conn_timeout_ticks \in 0 .. MaxTicks :
         connect = NewConnect(conn_timeout_ticks)
    /\ IdleMc
    /\ IdlePair
    /\ IdleTc
    /\ IdleApp
    /\ IdleNode
    /\ listener = <<>>
    /\ wire = <<>>
    /\ xchg = <<>>
    /\ funder = <<>>

Min(a, b) == IF a <= b THEN a ELSE b

\* Mutant of poll_timeout: the end of the timer stream is not the end of
\* the wait.
poll_timeout_stream_end_ignored(c) ==
    LET taken == Min(c.arrived, c.remaining) IN
    [c EXCEPT !.remaining = @ - taken, !.arrived = @ - taken,
              !.received = @ + taken]

\* A poll of timer_stream.take(conn_timeout_ticks).for_each(..): the ticks
\* that have arrived are taken, up to the number that remains; the stream
\* of take ends when none remains, and when the timer stream ends.
poll_timeout(c) ==
    LET taken == Min(c.arrived, c.remaining)
        after == [c EXCEPT !.remaining = @ - taken, !.arrived = @ - taken,
                           !.received = @ + taken]
    IN IF after.remaining > 0 /\ after.arrived = 0 /\ ~after.timer_open
       THEN [after EXCEPT !.remaining = 0]
       ELSE after

\* A poll of the select! of connect_with_timeout.  timeout_first: whether
\* fut_timeout is polled before fut_connect.  The branch polled first wins
\* when it is ready, and the other is not polled then.
connect_with_timeout_poll(c, timeout_first) ==
    LET timed == poll_timeout(c) IN
    IF timeout_first
    THEN IF timed.remaining = 0 THEN [timed EXCEPT !.ret = "None"]
         ELSE IF timed.work # "pending" THEN [timed EXCEPT !.ret = timed.work]
         ELSE timed
    ELSE IF c.work # "pending" THEN [c EXCEPT !.ret = c.work]
         ELSE IF timed.remaining = 0 THEN [timed EXCEPT !.ret = "None"]
         ELSE timed

\* The task is polled: at the call, and whenever it is woken.
ConnectPoll ==
    /\ connect.ret = "Pending"
    /\ \E timeout_first \in BOOLEAN :
         connect' = [connect_with_timeout_poll(connect, timeout_first)
                        EXCEPT !.polled = TRUE]

\* A tick of the timer arrives.
ConnectTick ==
    /\ connect.ret = "Pending"
    /\ connect.timer_open
    /\ connect.ticks < MaxTicks + 1
    /\ connect' = [connect EXCEPT !.arrived = @ + 1, !.ticks = @ + 1,
                                  !.polled = FALSE]

\* The timer stream ends.
ConnectTimerEnds ==
    /\ connect.ret = "Pending"
    /\ connect.timer_open
    /\ connect' = [connect EXCEPT !.timer_open = FALSE, !.polled = FALSE]

\* The connector has its result: a connection, or None.
ConnectorCompletes ==
    /\ connect.ret = "Pending"
    /\ connect.work = "pending"
    /\ \E res \in {"None", "Some"} :
         connect' = [connect EXCEPT !.work = res, !.polled = FALSE]

ConnectNext ==
    \/ (ConnectPoll /\ UNCHANGED <<mcVars, pairVars, tcVars, appVars, nodeVars, listener, wire, xchg, funder>>)
    \/ (ConnectTick /\ UNCHANGED <<mcVars, pairVars, tcVars, appVars, nodeVars, listener, wire, xchg, funder>>)
    \/ (ConnectTimerEnds /\ UNCHANGED <<mcVars, pairVars, tcVars, appVars, nodeVars, listener, wire, xchg, funder>>)
    \/ (ConnectorCompletes /\ UNCHANGED <<mcVars, pairVars, tcVars, appVars, nodeVars, listener, wire, xchg, funder>>)

SpecConnect == ConnectInit /\ [][ConnectNext]_vars

\* conn_timeout_ticks ticks have arrived from the timer, or the timer stream
\* has ended.
TimedOut ==
    \/ connect.received + connect.arrived >= connect.conn_timeout_ticks
    \/ ~connect.timer_open

\* C26: connect_with_timeout returns what the connector returns when the
\* connector has completed and fewer than conn_timeout_ticks ticks have
\* arrived from a timer stream that has not ended; it returns None when
\* conn_timeout_ticks ticks have arrived, or the timer stream has ended,
\* and the connector is still pending; it returns nothing before one of the
\* two, and when both are the case it returns one or the other; a poll at
\* which one of the two is the case returns.  Nothing changes after the
\* return, so that the state is the one of the poll that returned.
C26_Timeout ==
    /\ connect.ret # "Pending" =>
         /\ connect.work # "pending" \/ TimedOut
         /\ connect.work # "pending" /\ ~TimedOut =>
              connect.ret = connect.work
         /\ connect.work = "pending" => connect.ret = "None"
         /\ connect.ret \in {"None", connect.work}
    /\ connect.ret = "Pending" /\ connect.polled =>
         connect.work = "pending" /\ ~TimedOut
    /\ connect.received <= connect.conn_timeout_ticks
    /\ connect.remaining + connect.received <= connect.conn_timeout_ticks

\* The largest number of ticks has arrived, all were taken, and None was
\* returned while the connector was pending.
C26_Witness ==
    /\ connect.ret = "None"
    /\ connect.work = "pending"
    /\ connect.timer_open
    /\ connect.conn_timeout_ticks = MaxTicks
    /\ connect.received = MaxTicks

\* ---------------------------------------------------------------------------
\* Wire formats: components/proto/src/capnp_common.rs and
\* cswitch/src/schema/indexer.rs.  A value is written into a capnp builder and
\* read back from the reader over the same message.  A byte has WireByteBits
\* bits and a 64-bit word has WireWordBytes bytes.

\* Bits of a byte (8, scaled down).
WireByteBits == 1
\* Bytes of the 64-bit words x0, x1, ... of a buffer (8, scaled down).
WireWordBytes == 2
\* Longest list of public keys in a route, and of routes in a response.
MaxWireList == 2

WireBytes == 0 .. 2 ^ WireByteBits - 1
WireWordMax == 2 ^ (WireByteBits * WireWordBytes) - 1
WireWords == 0 .. WireWordMax
\* u128 and i128: two words.
WireU128Bits == 2 * WireWordBytes * WireByteBits
WireU128s == 0 .. 2 ^ WireU128Bits - 1
WireI128s == -(2 ^ (WireU128Bits - 1)) .. 2 ^ (WireU128Bits - 1) - 1

\* BigEndian::read_uN over a slice of bytes: the first byte is the most
\* significant.
RECURSIVE read_be(_)
read_be(bytes) ==
    IF Len(bytes) = 0 THEN 0
    ELSE read_be(SubSeq(bytes, 1, Len(bytes) - 1)) * 2 ^ WireByteBits
         + bytes[Len(bytes)]

\* write_uN::<BigEndian> of v into n bytes.
write_be(v, n) ==
    [i \in 1 .. n |-> (v \div 2 ^ (WireByteBits * (n - i))) % 2 ^ WireByteBits]

\* write_buffer128 / write_buffer256 / write_buffer512: a cursor over the
\* bytes, one read_u64::<BigEndian> per word x0, x1, ...
write_buffer(bytes, words) ==
    [w \in 1 .. words |->
        read_be(SubSeq(bytes, (w - 1) * WireWordBytes + 1, w * WireWordBytes))]

\* read_buffer128 / read_buffer256 / read_buffer512: the words x0, x1, ...
\* appended to a Vec, each with write_u64::<BigEndian>.
RECURSIVE read_buffer(_)
read_buffer(xs) ==
    IF Len(xs) = 0 THEN <<>>
    ELSE write_be(xs[1], WireWordBytes) \o read_buffer(Tail(xs))

write_custom_u_int128(from) ==
    [inner |-> write_buffer(write_be(from, 2 * WireWordBytes), 2)]

read_custom_u_int128(from) == read_be(read_buffer(from.inner))

\* write_i128::<BigEndian>: the two's complement of the value.
write_custom_int128(from) ==
    [inner |-> write_buffer(write_be(from % 2 ^ WireU128Bits, 2 * WireWordBytes), 2)]

\* BigEndian::read_i128: the bytes as a two's complement number.
read_custom_int128(from) ==
    LET u == read_be(read_buffer(from.inner)) IN
    IF u >= 2 ^ (WireU128Bits - 1) THEN u - 2 ^ WireU128Bits ELSE u

\* Words of a buffer128, buffer256 and buffer512.
Buffer128Words == 2
Buffer256Words == 4
Buffer512Words == 8

\* Byte strings of a fixed length: the same byte all over, and one string
\* whose bytes differ from each other.
FixedBytes(words) ==
    {[i \in 1 .. words * WireWordBytes |-> b] : b \in WireBytes}
        \cup {[i \in 1 .. words * WireWordBytes |-> (i \div 2) % 2 ^ WireByteBits]}

WirePublicKeys == FixedBytes(Buffer256Words)
WireHashes == FixedBytes(Buffer256Words)
WireSignatures == FixedBytes(Buffer512Words)

\* type_capnp_serde!(public_key, ...), and hash, invoice_id, signature:
\* write_func fills the inner buffer from the bytes, read_func builds the
\* native type from the bytes of the inner buffer.
write_public_key(from) == [inner |-> write_buffer(from, Buffer256Words)]

read_public_key(from) == read_buffer(from.inner)

write_signature(from) == [inner |-> write_buffer(from, Buffer512Words)]

read_signature(from) == read_buffer(from.inner)

\* A capnp list is written and read element by element, in order.
write_public_key_list(from) == [i \in 1 .. Len(from) |-> write_public_key(from[i])]

read_public_key_list(from) == [i \in 1 .. Len(from) |-> read_public_key(from[i])]

\* ---- cswitch/src/schema/indexer.rs: impl Schema for the indexer messages.
\* A native value is a record tagged with its type; a capnp message is the
\* record of its fields.

NeighborsRoute_write(self) ==
    [public_keys |-> write_public_key_list(self.public_keys)]

NeighborsRoute_read(from) ==
    [type |-> "NeighborsRoute",
     public_keys |-> read_public_key_list(from.public_keys)]

FriendsRoute_write(self) ==
    [public_keys |-> write_public_key_list(self.public_keys),
     capacity |-> self.capacity]

FriendsRoute_read(from) ==
    [type |-> "FriendsRoute",
     public_keys |-> read_public_key_list(from.public_keys),
     capacity |-> from.capacity]

RequestNeighborsRoute_write(self) ==
    [source_node_public_key |-> write_public_key(self.source_node_public_key),
     destination_node_public_key |->
         write_public_key(self.destination_node_public_key)]

RequestNeighborsRoute_read(from) ==
    [type |-> "RequestNeighborsRoute",
     source_node_public_key |-> read_public_key(from.source_node_public_key),
     destination_node_public_key |->
         read_public_key(from.destination_node_public_key)]

ResponseNeighborsRoute_write(self) ==
    [routes |-> [i \in 1 .. Len(self.routes) |->
                    NeighborsRoute_write(self.routes[i])]]

ResponseNeighborsRoute_read(from) ==
    [type |-> "ResponseNeighborsRoute",
     routes |-> [i \in 1 .. Len(from.routes) |->
                    NeighborsRoute_read(from.routes[i])]]

RequestFriendsRoute_write(self) ==
    IF self.route_type = "Direct"
    THEN [which |-> "Direct",
          source_node_public_key |->
              write_public_key(self.source_node_public_key),
          destination_node_public_key |->
              write_public_key(self.destination_node_public_key)]
    ELSE IF self.route_type = "LoopFromFriend"
    THEN [which |-> "LoopFromFriend",
          friend_public_key |-> write_public_key(self.friend_public_key)]
    ELSE [which |-> "LoopToFriend",
          friend_public_key |-> write_public_key(self.friend_public_key)]

RequestFriendsRoute_read(from) ==
    IF from.which = "Direct"
    THEN [type |-> "RequestFriendsRoute", route_type |-> "Direct",
          source_node_public_key |->
              read_public_key(from.source_node_public_key),
          destination_node_public_key |->
              read_public_key(from.destination_node_public_key)]
    ELSE IF from.which = "LoopFromFriend"
    THEN [type |-> "RequestFriendsRoute", route_type |-> "LoopFromFriend",
          friend_public_key |-> read_public_key(from.friend_public_key)]
    ELSE [type |-> "RequestFriendsRoute", route_type |-> "LoopToFriend",
          friend_public_key |-> read_public_key(from.friend_public_key)]

ResponseFriendsRoute_write(self) ==
    [routes |-> [i \in 1 .. Len(self.routes) |->
                    FriendsRoute_write(self.routes[i])]]

ResponseFriendsRoute_read(from) ==
    [type |-> "ResponseFriendsRoute",
     routes |-> [i \in 1 .. Len(from.routes) |->
                    FriendsRoute_read(from.routes[i])]]

IndexerRoute_write(self) ==
    [neighbors_route |-> NeighborsRoute_write(self.neighbors_route),
     app_port |-> self.app_port]

IndexerRoute_read(from) ==
    [type |-> "IndexerRoute",
     neighbors_route |-> NeighborsRoute_read(from.neighbors_route),
     app_port |-> from.app_port]

RoutesToIndexer_write(self) ==
    [routes |-> [i \in 1 .. Len(self.routes) |->
                    IndexerRoute_write(self.routes[i])],
     request_price |-> self.request_price]

RoutesToIndexer_read(from) ==
    [type |-> "RoutesToIndexer",
     routes |-> [i \in 1 .. Len(from.routes) |->
                    IndexerRoute_read(from.routes[i])],
     request_price |-> from.request_price]

\* capnp_common.rs: write_receipt and read_receipt are unimplemented!(): the
\* call panics whatever the receipt or the reader.
Panic == [panicked |-> TRUE]

HasPanicked(r) == "panicked" \in DOMAIN r

write_receipt(from) == Panic

read_receipt(from) == Panic

\* ---- the values written and read

SeqsUpTo(S, n) == UNION {[1 .. k -> S] : k \in 0 .. n}

NeighborsRoutesOf(lists) ==
    {[type |-> "NeighborsRoute", public_keys |-> ks] : ks \in lists}

FriendsRoutesOf(lists, capacities) ==
    {[type |-> "FriendsRoute", public_keys |-> ks, capacity |-> c] :
        ks \in lists, c \in capacities}

IndexerRoutesOf(lists, ports) ==
    {[type |-> "IndexerRoute", neighbors_route |-> r, app_port |-> p] :
        r \in NeighborsRoutesOf(lists), p \in ports}

WireKeyLists == SeqsUpTo(WirePublicKeys, MaxWireList)
\* The routes of a list of routes have at most one key each.
WireShortKeyLists == SeqsUpTo(WirePublicKeys, 1)
WireEndWords == {0, WireWordMax}

RequestFriendsRoutes ==
    {[type |-> "RequestFriendsRoute", route_type |-> "Direct",
      source_node_public_key |-> s, destination_node_public_key |-> d] :
        s \in WirePublicKeys, d \in WirePublicKeys}
    \cup {[type |-> "RequestFriendsRoute", route_type |-> t,
           friend_public_key |-> f] :
        t \in {"LoopFromFriend", "LoopToFriend"}, f \in WirePublicKeys}

Receipts ==
    {[type |-> "Receipt", response_hash |-> h, invoice_id |-> i,
      dest_payment |-> p, signature |-> s] :
        h \in WireHashes, i \in WireHashes,
        p \in {0, 2 ^ WireU128Bits - 1}, s \in WireSignatures}

WireValues ==
    {[type |-> "u128", value |-> v] : v \in WireU128s}
    \cup {[type |-> "i128", value |-> v] : v \in WireI128s}
    \cup NeighborsRoutesOf(WireKeyLists)
    \cup FriendsRoutesOf(WireKeyLists, WireWords)
    \cup {[type |-> "RequestNeighborsRoute", source_node_public_key |-> s,
           destination_node_public_key |-> d] :
            s \in WirePublicKeys, d \in WirePublicKeys}
    \cup {[type |-> "ResponseNeighborsRoute", routes |-> rs] :
            rs \in SeqsUpTo(NeighborsRoutesOf(WireShortKeyLists), MaxWireList)}
    \cup RequestFriendsRoutes
    \cup {[type |-> "ResponseFriendsRoute", routes |-> rs] :
            rs \in SeqsUpTo(FriendsRoutesOf(WireShortKeyLists, WireEndWords),
                            MaxWireList)}
    \cup IndexerRoutesOf(WireKeyLists, WireWords)
    \cup {[type |-> "RoutesToIndexer", routes |-> rs, request_price |-> p] :
            rs \in SeqsUpTo(IndexerRoutesOf(WireShortKeyLists, WireEndWords),
                            MaxWireList),
            p \in WireEndWords}
    \cup Receipts

\* The receipt messages a peer can send: the fields of the capnp struct.
ReceiptMessages ==
    {[response_hash |-> write_public_key(r.response_hash),
      invoice_id |-> write_public_key(r.invoice_id),
      dest_payment |-> write_custom_u_int128(r.dest_payment),
      signature |-> write_signature(r.signature)] : r \in Receipts}

\* Writing a value into the builder of its type.
WireWrite(v) ==
    CASE v.type = "u128" -> write_custom_u_int128(v.value)
      [] v.type = "i128" -> write_custom_int128(v.value)
      [] v.type = "NeighborsRoute" -> NeighborsRoute_write(v)
      [] v.type = "FriendsRoute" -> FriendsRoute_write(v)
      [] v.type = "RequestNeighborsRoute" -> RequestNeighborsRoute_write(v)
      [] v.type = "ResponseNeighborsRoute" -> ResponseNeighborsRoute_write(v)
      [] v.type = "RequestFriendsRoute" -> RequestFriendsRoute_write(v)
      [] v.type = "ResponseFriendsRoute" -> ResponseFriendsRoute_write(v)
      [] v.type = "IndexerRoute" -> IndexerRoute_write(v)
      [] v.type = "RoutesToIndexer" -> RoutesToIndexer_write(v)
      [] v.type = "Receipt" -> write_receipt(v)

\* Reading a value of the type from the reader of a message.
WireRead(type, m) ==
    CASE type = "u128" -> [type |-> "u128", value |-> read_custom_u_int128(m)]
      [] type = "i128" -> [type |-> "i128", value |-> read_custom_int128(m)]
      [] type = "NeighborsRoute" -> NeighborsRoute_read(m)
      [] type = "FriendsRoute" -> FriendsRoute_read(m)
      [] type = "RequestNeighborsRoute" -> RequestNeighborsRoute_read(m)
      [] type = "ResponseNeighborsRoute" -> ResponseNeighborsRoute_read(m)
      [] type = "RequestFriendsRoute" -> RequestFriendsRoute_read(m)
      [] type = "ResponseFriendsRoute" -> ResponseFriendsRoute_read(m)
      [] type = "IndexerRoute" -> IndexerRoute_read(m)
      [] type = "RoutesToIndexer" -> RoutesToIndexer_read(m)
      [] type = "Receipt" -> read_receipt(m)

\* stage: "Value" (a native value to send), "Encoded" (a message: the one
\* written from the value, or one received from a peer), "Decoded" (the value
\* read from the message), "Panicked" (the call did not return).
WireInit ==
    /\ \/ \E v \in WireValues :
            wire = [stage |-> "Value", type |-> v.type, local |-> TRUE,
                    value |-> v, message |-> <<>>, out |-> <<>>]
       \/ \E m \in ReceiptMessages :
            wire = [stage |-> "Encoded", type |-> "Receipt", local |-> FALSE,
                    value |-> <<>>, message |-> m, out |-> <<>>]
    /\ IdleMc
    /\ IdlePair
    /\ IdleTc
    /\ IdleApp
    /\ IdleNode
    /\ listener = <<>>
    /\ connect = <<>>
    /\ xchg = <<>>
    /\ funder = <<>>

\* encode(): the value is written into a new message.
WireEncode ==
    /\ wire.stage = "Value"
    /\ LET m == WireWrite(wire.value) IN
       wire' = IF HasPanicked(m)
               THEN [wire EXCEPT !.stage = "Panicked"]
               ELSE [wire EXCEPT !.stage = "Encoded", !.message = m]

\* decode(): a value is read from the message.
WireDecode ==
    /\ wire.stage = "Encoded"
    /\ LET v == WireRead(wire.type, wire.message) IN
       wire' = IF HasPanicked(v)
               THEN [wire EXCEPT !.stage = "Panicked"]
               ELSE [wire EXCEPT !.stage = "Decoded", !.out = v]

WireNext ==
    \/ (WireEncode /\ UNCHANGED <<mcVars, pairVars, tcVars, appVars, nodeVars, listener, connect, xchg, funder>>)
    \/ (WireDecode /\ UNCHANGED <<mcVars, pairVars, tcVars, appVars, nodeVars, listener, connect, xchg, funder>>)

SpecWire == WireInit /\ [][WireNext]_vars

\* C29: encode followed by decode is the identity for wire messages: every
\* value of every serialisable type (indexer messages, 128-bit integers,
\* receipts) is encoded, and decoding its encoding returns a value equal to
\* the original.
C29_RoundTrip ==
    /\ wire.stage # "Panicked"
    /\ wire.stage = "Decoded" /\ wire.local => wire.out = wire.value

\* The round trip of every type but the receipt: the integers, split into two
\* big-endian words and put together again, and the indexer messages.
C29_RoundTripButReceipts ==
    wire.type # "Receipt" =>
        /\ wire.stage # "Panicked"
        /\ wire.stage = "Decoded" => wire.out = wire.value

\* A negative integer has made the round trip through its two words.
C29_SignedRoundTrip ==
    /\ wire.stage = "Decoded"
    /\ wire.type = "i128"
    /\ wire.value.value = -1
    /\ wire.message.inner = <<WireWordMax, WireWordMax>>
    /\ wire.out = wire.value

\* write_receipt has panicked on a receipt.
C29_ReceiptNotWritten ==
    /\ wire.stage = "Panicked"
    /\ wire.local
    /\ wire.value \in Receipts

\* read_receipt has panicked on a receipt message of a peer.
C29_ReceiptNotRead ==
    /\ wire.stage = "Panicked"
    /\ ~wire.local
    /\ wire.message \in ReceiptMessages

\* ---------------------------------------------------------------------------
\* The two ends of a token channel exchanging move tokens
\* (token_channel/directional.rs): the end that holds the token queues a
\* batch, states its balances in the move token it creates
\* (create_friend_move_token) and turns Outgoing; the other end receives the
\* token (simulate_receive_move_token) and applies the mutations.

\* Move tokens sent in one behaviour of the two ends.
MaxExchanges == 3

\* The balances, as the end signing the reset move token has them, that the
\* two ends agree on when the channel is rebuilt.
ExchangeBalances == {-1, 0, 1}

\* The two ends as DirectionalTc::new leaves them.
FreshEnds ==
    [A |-> NewDirectionalTc("A", "B"), B |-> NewDirectionalTc("B", "A")]

\* The two ends rebuilt from the reset move token of signer: signer from its
\* own token (new_from_local_reset), the other end from the remote one
\* (new_from_remote_reset), with opposite balances.
RebuiltEnds(signer, balance) ==
    LET terms == get_reset_terms(NewDirectionalTc(signer, Other(signer)))
        reset_move_token == ResetMoveToken(terms, 0, balance, signer)
    IN [p \in {"A", "B"} |->
          IF p = signer
          THEN new_from_local_reset(p, Other(p), reset_move_token, balance)
          ELSE new_from_remote_reset(p, Other(p), reset_move_token,
                                     -(balance))]

NoInflight == [some |-> FALSE]

NoExchange ==
    [tag |-> "none", err |-> "None", to |-> "none", mirrored |-> FALSE,
     chained |-> FALSE, balance |-> 0, local_pending_debt |-> 0,
     remote_pending_debt |-> 0, operations |-> <<>>]

ExchangeInit ==
    /\ \E ends \in {FreshEnds}
                   \cup {RebuiltEnds(s, b) : s \in {"A", "B"},
                                             b \in ExchangeBalances} :
         xchg = [ends |-> ends, inflight |-> NoInflight, last |-> NoExchange,
                 sent |-> 0, fresh |-> ends = FreshEnds]
    /\ IdleMc
    /\ IdlePair
    /\ IdleTc
    /\ IdleApp
    /\ IdleNode
    /\ listener = <<>>
    /\ connect = <<>>
    /\ wire = <<>>
    /\ funder = <<>>

\* An error answer makes the channel inconsistent: the exchange ends.
ExchangeStopped == xchg.last.tag \in {"Err", "Panic"}

\* The end p sends a batch: begin_outgoing_move_token, the operations are
\* queued, create_friend_move_token from its own state, and the direction
\* turns (mutate).  sender_before is p's MutualCredit before the batch.
ExchangeSend(p) ==
    /\ xchg.sent < MaxExchanges
    /\ ~ExchangeStopped
    /\ ~xchg.inflight.some
    /\ begin_outgoing_move_token(xchg.ends[p]).some
    /\ \E ops \in Batches(TcLocalOps(xchg.ends[p].token_channel)),
          rn \in RandValues :
         LET dtc == xchg.ends[p]
             outgoing_tc == begin_outgoing_move_token(dtc).value
             q == queue_operations_from(outgoing_tc, ops, 1)
             queued_tc == mutate(dtc, [kind |-> "TcMutation",
                                       token_channel |-> q.mc])
             t == create_friend_move_token(queued_tc, ops, rn)
         IN /\ q.ok
            /\ t.some
            /\ xchg' = [xchg EXCEPT
                 !.ends[p] = mutate(queued_tc,
                                    [kind |-> "SetDirection",
                                     direction |-> "Outgoing",
                                     friend_move_token |-> t.value]),
                 !.inflight = [some |-> TRUE, to |-> Other(p),
                               token |-> t.value,
                               sender_before |-> dtc.token_channel],
                 !.last = NoExchange,
                 !.sent = @ + 1]

\* The token in flight arrives at its end: simulate_receive_move_token, and
\* the mutations of a received token are applied.  last keeps the answer,
\* whether the receiver's MutualCredit was the mirror image of the sender's
\* when the batch was built, whether the token's old_token was the new_token
\* of the receiver's stored token, and what the token stated.
ExchangeReceive ==
    /\ xchg.inflight.some
    /\ LET p == xchg.inflight.to
           t == xchg.inflight.token
           dtc == xchg.ends[p]
           r == simulate_receive_move_token(dtc, t)
       IN xchg' = [xchg EXCEPT
            !.ends[p] = MutateAll(dtc, r.mutations),
            !.inflight = NoInflight,
            !.last = [tag |-> r.tag, err |-> r.err, to |-> p,
                      mirrored |-> Mirrored(xchg.inflight.sender_before,
                                            dtc.token_channel),
                      chained |-> t.old_token = get_new_token(dtc),
                      balance |-> t.balance,
                      local_pending_debt |-> t.local_pending_debt,
                      remote_pending_debt |-> t.remote_pending_debt,
                      operations |-> t.operations]]

ExchangeNext ==
    \/ \E p \in {"A", "B"} :
         ExchangeSend(p) /\ UNCHANGED <<mcVars, pairVars, tcVars, appVars, nodeVars, listener, connect, wire, funder>>
    \/ (ExchangeReceive /\ UNCHANGED <<mcVars, pairVars, tcVars, appVars, nodeVars, listener, connect, wire, funder>>)

SpecExchange == ExchangeInit /\ [][ExchangeNext]_vars

\* The last token came to an end whose MutualCredit mirrored the sender's and
\* whose stored token it answers.
HonestArrival ==
    /\ xchg.last.tag # "none"
    /\ xchg.last.mirrored
    /\ xchg.last.chained

\* C30: honest exchanges are accepted: a move token built by
\* create_friend_move_token from the sender's own state, arriving at a
\* receiver whose MutualCredit is the mirror image of the sender's, is
\* answered Received and never InvalidStatedBalance, whatever the balance and
\* the pending debts.
C30_HonestAccepted ==
    HonestArrival =>
        /\ xchg.last.tag = "Received"
        /\ xchg.last.err # "InvalidStatedBalance"

\* What the code does: the token is accepted exactly when what it states
\* reads the same from both ends (balance 0, equal pending debts), and is
\* answered InvalidStatedBalance otherwise.
C30_AcceptedIffSymmetric ==
    HonestArrival =>
        IF /\ xchg.last.balance = 0
           /\ xchg.last.local_pending_debt = xchg.last.remote_pending_debt
        THEN xchg.last.tag = "Received"
        ELSE xchg.last.err = "InvalidStatedBalance"

\* An honest token stating a non-zero balance was answered
\* InvalidStatedBalance.
C30_BalanceRefused ==
    /\ HonestArrival
    /\ xchg.last.balance # 0
    /\ xchg.last.operations = <<>>
    /\ xchg.last.err = "InvalidStatedBalance"

\* An honest token stating a pending debt was answered InvalidStatedBalance.
C30_PendingDebtRefused ==
    /\ HonestArrival
    /\ xchg.last.balance = 0
    /\ xchg.last.local_pending_debt > 0
    /\ xchg.last.err = "InvalidStatedBalance"

\* An honest token stating zeros was accepted.
C30_ZeroAccepted ==
    /\ HonestArrival
    /\ xchg.last.operations # <<>>
    /\ xchg.last.tag = "Received"

\* The first token between two ends built by DirectionalTc::new: each end
\* built its first move token from its own public key, so the token does not
\* answer the receiver's stored token.
C30_FreshPairRefused ==
    /\ xchg.fresh
    /\ xchg.last.mirrored
    /\ ~xchg.last.chained
    /\ xchg.last.err = "ChainInconsistency"

\* ---------------------------------------------------------------------------
\* The two ends of a token channel over a channel that delays, loses and
\* duplicates move tokens.  net holds the tokens on their way: a token that
\* arrives stays there (it may arrive again) until it is lost.

\* New move tokens sent in one behaviour of the two ends.
MaxNetSends == 3

NoArrival ==
    [tag |-> "none", err |-> "None", to |-> "none", resent |-> FALSE,
     unchanged |-> TRUE, lost |-> FALSE, symmetric |-> FALSE,
     first |-> FALSE, chained |-> FALSE, answer_symmetric |-> FALSE]

NetInit ==
    /\ \E ends \in {FreshEnds}
                   \cup {RebuiltEnds(s, 0) : s \in {"A", "B"}} :
         xchg = [ends |-> ends, net |-> {}, last |-> NoArrival, sent |-> 0,
                 inconsistent |-> {}, fresh |-> ends = FreshEnds]
    /\ IdleMc
    /\ IdlePair
    /\ IdleTc
    /\ IdleApp
    /\ IdleNode
    /\ listener = <<>>
    /\ connect = <<>>
    /\ wire = <<>>
    /\ funder = <<>>

\* The batches an end sends: no operation, one operation, or the two that
\* open the channel for the requests of the other end.
NetBatches(ops) ==
    {<<>>} \cup {<<op>> : op \in ops}
         \cup {<<[kind |-> "EnableRequests"],
                 [kind |-> "SetRemoteMaxDebt", proposed_max_debt |-> 2]>>}

\* What a move token states reads the same from both ends.
Symmetric(t) ==
    t.balance = 0 /\ t.local_pending_debt = t.remote_pending_debt

\* The end p sends a new batch, as in ExchangeSend, and the token goes on
\* its way.
NetSend(p) ==
    /\ xchg.sent < MaxNetSends
    /\ p \notin xchg.inconsistent
    /\ begin_outgoing_move_token(xchg.ends[p]).some
    /\ \E ops \in NetBatches(TcLocalOps(xchg.ends[p].token_channel)),
          rn \in RandValues :
         LET dtc == xchg.ends[p]
             outgoing_tc == begin_outgoing_move_token(dtc).value
             q == queue_operations_from(outgoing_tc, ops, 1)
             queued_tc == mutate(dtc, [kind |-> "TcMutation",
                                       token_channel |-> q.mc])
             t == create_friend_move_token(queued_tc, ops, rn)
         IN /\ q.ok
            /\ t.some
            /\ xchg' = [xchg EXCEPT
                 !.ends[p] = mutate(queued_tc,
                                    [kind |-> "SetDirection",
                                     direction |-> "Outgoing",
                                     friend_move_token |-> t.value]),
                 !.net = @ \cup {[to |-> Other(p), token |-> t.value]},
                 !.last = NoArrival,
                 !.sent = @ + 1]

\* The end p, waiting for an answer, sends its outgoing move token again
\* (get_outgoing_move_token).
NetResend(p) ==
    /\ p \notin xchg.inconsistent
    /\ get_outgoing_move_token(xchg.ends[p]).some
    /\ LET t == get_outgoing_move_token(xchg.ends[p]).value.friend_move_token
       IN /\ [to |-> Other(p), token |-> t] \notin xchg.net
          /\ xchg' = [xchg EXCEPT
               !.net = @ \cup {[to |-> Other(p), token |-> t]},
               !.last = NoArrival]

\* The token m on its way arrives: simulate_receive_move_token, the mutations of
\* a received token are applied, the token of RetransmitOutgoing is sent
\* again, and an error is the report of an inconsistency.
NetReceive(m, stays) ==
      /\ m.to \notin xchg.inconsistent
      /\ LET p == m.to
             dtc == xchg.ends[p]
             r == simulate_receive_move_token(dtc, m.token)
             again == IF r.tag = "RetransmitOutgoing"
                      THEN {[to |-> Other(p), token |-> r.friend_move_token]}
                      ELSE {}
         IN xchg' = [xchg EXCEPT
              !.ends[p] = MutateAll(dtc, r.mutations),
              !.net = (IF stays THEN @ ELSE @ \ {m}) \cup again,
              !.inconsistent = IF r.tag \in {"Err", "Panic"}
                               THEN @ \cup {p} ELSE @,
              !.last = [tag |-> r.tag, err |-> r.err, to |-> p,
                        resent |-> /\ r.tag = "RetransmitOutgoing"
                                   /\ r.friend_move_token
                                        = dtc.friend_move_token,
                        unchanged |-> MutateAll(dtc, r.mutations) = dtc,
                        lost |-> /\ dtc.direction = "Outgoing"
                                 /\ dtc.friend_move_token.old_token
                                      = m.token.new_token
                                 /\ Other(p) \notin xchg.inconsistent
                                 /\ xchg.ends[Other(p)].direction
                                      = "Outgoing"
                                 /\ xchg.ends[Other(p)].friend_move_token
                                      = m.token,
                        answer_symmetric |->
                            Symmetric(dtc.friend_move_token),
                        symmetric |-> Symmetric(m.token),
                        first |-> /\ dtc = FreshEnds[p]
                                  /\ m.token.old_token
                                       = get_new_token(FreshEnds[Other(p)])
                                  /\ m.token.move_token_counter = 1,
                        chained |-> m.token.old_token
                                      = get_new_token(dtc)]]

\* The channel that duplicates: the token that arrives stays on its way.
NetDeliver ==
    \E m \in xchg.net : NetReceive(m, TRUE)

\* A token on its way is lost.
NetLose ==
    \E m \in xchg.net :
      xchg' = [xchg EXCEPT !.net = @ \ {m}, !.last = NoArrival]

NetNext ==
    \/ \E p \in {"A", "B"} :
         NetSend(p) /\ UNCHANGED <<mcVars, pairVars, tcVars, appVars, nodeVars, listener, connect, wire, funder>>
    \/ \E p \in {"A", "B"} :
         NetResend(p) /\ UNCHANGED <<mcVars, pairVars, tcVars, appVars, nodeVars, listener, connect, wire, funder>>
    \/ (NetDeliver /\ UNCHANGED <<mcVars, pairVars, tcVars, appVars, nodeVars, listener, connect, wire, funder>>)
    \/ (NetLose /\ UNCHANGED <<mcVars, pairVars, tcVars, appVars, nodeVars, listener, connect, wire, funder>>)

SpecNet == NetInit /\ [][NetNext]_vars

\* C31: token mutual exclusion: while neither end has reported an
\* inconsistency, the two ends are never both in direction Incoming, whatever
\* the channel delays, loses or duplicates.
C31_TokenMutualExclusion ==
    xchg.inconsistent = {} =>
        ~(/\ xchg.ends["A"].direction = "Incoming"
          /\ xchg.ends["B"].direction = "Incoming")

\* The token has changed hands MaxNetSends times, a token that arrived before
\* has just arrived again, and no end has reported an inconsistency.
C31_Witness ==
    /\ xchg.inconsistent = {}
    /\ xchg.sent = MaxNetSends
    /\ xchg.last.tag = "Duplicate"
    /\ Cardinality(xchg.net) >= 2

\* C32: the two ends agree on the initial token: the first move token that
\* the Incoming end of a pair built by DirectionalTc::new creates answers the
\* stored token of the Outgoing end (its old_token is that end's
\* get_new_token()) and is not refused with ChainInconsistency.
C32_InitialTokenAgreed ==
    xchg.last.first =>
        /\ xchg.last.chained
        /\ xchg.last.err # "ChainInconsistency"

\* What the ends do: the first move token between two ends built by
\* DirectionalTc::new never answers the stored token of its receiver, and is
\* refused with ChainInconsistency.
C32_InitialTokenRefused ==
    xchg.last.first =>
        /\ ~xchg.last.chained
        /\ xchg.last.tag = "Err"
        /\ xchg.last.err = "ChainInconsistency"

\* The first move token of a pair built by DirectionalTc::new has arrived.
C32_FirstArrival ==
    /\ xchg.last.first
    /\ xchg.inconsistent # {}

\* The channel that loses tokens and keeps their order: the token that
\* arrives at p is the oldest on its way to p, and is no longer on its way.
\* An end sends tokens of growing move_token_counter, and sends again only
\* the last of them.
NetArrive(p) ==
    \E m \in xchg.net :
      /\ m.to = p
      /\ \A n \in xchg.net :
           n.to = p => n.token.move_token_counter
                         >= m.token.move_token_counter
      /\ NetReceive(m, FALSE)

NetLiveNext ==
    \/ \E p \in {"A", "B"} :
         NetSend(p) /\ UNCHANGED <<mcVars, pairVars, tcVars, appVars, nodeVars, listener, connect, wire, funder>>
    \/ \E p \in {"A", "B"} :
         NetResend(p) /\ UNCHANGED <<mcVars, pairVars, tcVars, appVars, nodeVars, listener, connect, wire, funder>>
    \/ \E p \in {"A", "B"} :
         NetArrive(p) /\ UNCHANGED <<mcVars, pairVars, tcVars, appVars, nodeVars, listener, connect, wire, funder>>
    \/ (NetLose /\ UNCHANGED <<mcVars, pairVars, tcVars, appVars, nodeVars, listener, connect, wire, funder>>)

\* Fair delivery of retransmissions: an end that waits for an answer sends
\* its outgoing move token again, and a token that is on its way to an end
\* again and again arrives there.
SpecNetLive ==
    /\ NetInit
    /\ [][NetLiveNext]_vars
    /\ \A p \in {"A", "B"} : WF_xchg(NetResend(p))
    /\ \A p \in {"A", "B"} : SF_xchg(NetArrive(p))

\* The end that has just received a token is the end whose last outgoing
\* move token was lost: the peer, still waiting, has sent its token again.
LostAnswered(p) ==
    /\ xchg.last.to = p
    /\ xchg.last.lost

\* C33: recovery from a lost move token: the end whose last outgoing move
\* token was lost answers the token the peer sends again with
\* RetransmitOutgoing of its unchanged outgoing token; under fair delivery the
\* peer then accepts that token as Received; no end reports
\* ChainInconsistency on the way.
C33_LostTokenRecovered ==
    /\ [](xchg.last.lost =>
            /\ xchg.last.tag = "RetransmitOutgoing"
            /\ xchg.last.resent
            /\ xchg.last.unchanged)
    /\ \A p \in {"A", "B"} :
         LostAnswered(p) ~>
             (xchg.last.to = Other(p) /\ xchg.last.tag = "Received")
    /\ [](~xchg.fresh => xchg.last.err # "ChainInconsistency")

\* The answer to the token sent again: RetransmitOutgoing of the stored
\* outgoing token, the end unchanged.
C33_RetransmitAnswered ==
    xchg.last.lost =>
        /\ xchg.last.tag = "RetransmitOutgoing"
        /\ xchg.last.resent
        /\ xchg.last.unchanged

\* What the ends do: the retransmitted token arrives at the peer, which
\* accepts it when what it states reads the same from both ends and refuses
\* it with InvalidStatedBalance otherwise.
C33_RecoveredOrRefused ==
    \A p \in {"A", "B"} :
      LostAnswered(p) ~>
          /\ xchg.last.to = Other(p)
          /\ \/ xchg.last.tag = "Received"
             \/ xchg.last.err = "InvalidStatedBalance"

\* No end of a rebuilt pair reports ChainInconsistency when the tokens
\* arrive in the order they were sent.
C33_NoChainInconsistency ==
    ~xchg.fresh => xchg.last.err # "ChainInconsistency"

\* A lost token that states a pending debt has been answered with
\* RetransmitOutgoing.
C33_LostAsymmetric ==
    /\ xchg.last.lost
    /\ xchg.last.tag = "RetransmitOutgoing"
    /\ ~xchg.last.answer_symmetric

\* The recovery holds for the tokens that the peer can accept: a lost token
\* that states zero balance and equal pending debts is, once retransmitted,
\* accepted as Received.
C33_SymmetricRecovered ==
    \A p \in {"A", "B"} :
      (LostAnswered(p) /\ xchg.last.answer_symmetric) ~>
          (xchg.last.to = Other(p) /\ xchg.last.tag = "Received")

\* ---------------------------------------------------------------------------
\* The app server between apps that ask for transactions and for the closing
\* of payments, and a funder that answers every request it takes.

\* Requests the apps send in one behaviour of the multiplexer.
MaxMuxRequests == 2

\* The request ids of the transactions.
MuxIds == {1, 2}

\* The app ids of the connections that are made.
MuxAppIds == {0, 1}

\* The requests of the apps: a transaction under each request id, and the
\* closing of the payment that the funder answers for.
MuxRequests ==
    {[kind |-> "CreateTransaction", request_id |-> id] : id \in MuxIds}
    \cup {[kind |-> "RequestClosePayment", payment_id |-> 1]}

\* The apps that connect: with the permission of a buyer, and without.
MuxPermissions ==
    {NewAppPermissions(TRUE, TRUE, TRUE, TRUE),
     NewAppPermissions(TRUE, FALSE, TRUE, TRUE)}

\* The app end of a connection, with the requests the app has made.
MuxConn ==
    [report |-> None, waiting |-> {}, state |-> "Open", answers |-> <<>>,
     failed |-> 0, asked |-> <<>>]

MuxInit ==
    /\ server = NewAppServer(CHOOSE r \in InitialNodeReports :
                                 r.funder_report.friends = {})
    /\ peers = [funder_alive |-> TRUE, index_alive |-> TRUE,
                funder_report |-> [friends |-> {}, relays |-> {}],
                index_client_report |-> [index_servers |-> {}]]
    /\ conns = EmptyMap
    /\ to_funder = <<>>
    /\ from_funder = <<>>
    /\ to_index = <<>>
    /\ from_index = <<>>
    /\ result = "Running"
    /\ applast = NoAppEvent
    /\ appsteps = [connections |-> 0, requests |-> 0, reports |-> 0]
    /\ node = NodeAtSelect
    /\ IdleMc
    /\ IdlePair
    /\ IdleTc
    /\ IdleRest

\* AppServerEvent::IncomingConnection.  The apps connect before the first
\* request is made.
MuxConnect ==
    /\ result = "Running"
    /\ ~server.incoming_connections_closed
    /\ server.app_counter \in MuxAppIds
    /\ appsteps.requests = 0
    /\ \E permissions \in MuxPermissions :
         Adopt(handle_incoming_connection(
                   Handling, permissions, TRUE, MuxConn),
               "IncomingConnection", server.app_counter, "none", {})
    /\ UNCHANGED <<from_funder, from_index, peers>>

\* AppServerEvent::FromApp with a message: an app that holds its connection
\* asks for a transaction or for the closing of a payment, whatever the
\* other apps have asked for and whatever is still on its way.
MuxRequest ==
    /\ result = "Running"
    /\ appsteps.requests < MaxMuxRequests
    /\ \E app_id \in DOMAIN conns, r \in MuxRequests :
         /\ conns[app_id].state = "Open"
         /\ LET id == appsteps.requests + 1
                h == handle_from_app(
                         Handling, app_id,
                         Some([app_request_id |-> id, app_request |-> r]),
                         peers.funder_alive, peers.index_alive)
            IN Adopt([h EXCEPT !.conns[app_id].asked = Append(@, r)],
                     "FromApp", app_id, r.kind, {})
    /\ UNCHANGED <<from_funder, from_index, peers>>

\* An app drops its connection and keeps what it has.
MuxDrops ==
    /\ result = "Running"
    /\ \E app_id \in DOMAIN conns :
         /\ conns[app_id].state = "Open"
         /\ conns' = [conns EXCEPT ![app_id].state = "Dropped"]
    /\ UNCHANGED <<server, to_funder, from_funder, to_index, from_index,
                   peers, result, appsteps>>
    /\ applast' = NoAppEvent
    /\ UNCHANGED node

MuxNext ==
    \/ (MuxConnect /\ UNCHANGED <<mcVars, pairVars, tcVars, restVars>>)
    \/ (MuxRequest /\ UNCHANGED <<mcVars, pairVars, tcVars, restVars>>)
    \/ (MuxDrops /\ UNCHANGED <<mcVars, pairVars, tcVars, restVars>>)
    \/ (FromAppClosed /\ UNCHANGED <<mcVars, pairVars, tcVars, restVars>>)
    \/ (FunderTakes /\ UNCHANGED <<mcVars, pairVars, tcVars, restVars>>)
    \/ (FromFunder /\ UNCHANGED <<mcVars, pairVars, tcVars, restVars>>)

SpecMux == MuxInit /\ [][MuxNext]_vars

\* How many of the messages of a list are of this kind, under this id.
Transactions(messages, kind, id) ==
    Cardinality({i \in DOMAIN messages :
                    /\ messages[i].kind = kind
                    /\ messages[i].request_id = id})

Closings(messages, kind) ==
    Cardinality({i \in DOMAIN messages : messages[i].kind = kind})

\* The connected apps that may ask for the closing of a payment, have asked
\* for it and still hold their connection.
ClosePaymentAskers ==
    {a \in DOMAIN conns :
        /\ a \in DOMAIN server.apps
        /\ server.apps[a].permissions.buyer
        /\ conns[a].state = "Open"
        /\ Closings(conns[a].asked, "RequestClosePayment") > 0}

\* C34: a ResponseClosePayment that comes from the funder is forwarded to
\* the app that asked for the closing of that payment, if the app is still
\* connected.
C34_ResponseForwarded ==
    (/\ applast.event = "FromFunder"
     /\ applast.kind = "ResponseClosePayment"
     /\ ClosePaymentAskers # {}) =>
        \E a \in ClosePaymentAskers :
            Closings(conns[a].answers, "ResponseClosePayment") > 0

\* What the server does: RequestClosePayment records nothing, so
\* close_payment_requests stays empty and no app is ever sent a
\* ResponseClosePayment.
C34_NeverForwarded ==
    /\ server.close_payment_requests = EmptyMap
    /\ \A a \in DOMAIN conns :
         Closings(conns[a].answers, "ResponseClosePayment") = 0

\* The answer to the request of the only app, which is still connected, has
\* been handled.
C34_AnswerHandled ==
    /\ applast.event = "FromFunder"
    /\ applast.kind = "ResponseClosePayment"
    /\ ClosePaymentAskers # {}
    /\ Cardinality(DOMAIN conns) = 1
    /\ result = "Running"

SpecListenerLive ==
    /\ ListenerInit
    /\ [][ListenerNext]_vars
    /\ WF_listener(ListenerPendingReject)

\* The task i fails to connect in time, or fails to send
\* InitConnection::Accept, while the listener loop runs.
AcceptFails(i) ==
    /\ i \in DOMAIN listener.tasks
    /\ listener.tasks[i].pc \in {"connect", "send_accept"}
    /\ listener'.tasks[i].pc = "done"
    /\ listener.pc = "events"

\* The key waits on the pending_reject channel.
PendingRejectOf(public_key) ==
    \E i \in DOMAIN listener.pending_reject :
        listener.pending_reject[i] = public_key

\* The listener has just sent RejectConnection for the key on the main
\* connection, for a key that waited on the pending_reject channel.
RejectReported(public_key) ==
    /\ listener.last.event = "PendingReject"
    /\ listener.last.public_key = public_key
    /\ listener.last.decision = "rejected"
    /\ listener.main[Len(listener.main)] = RejectConnection(public_key)

\* C36: failed accepts are reported to the relay: when accept_connection for
\* an allowed key fails to connect in time or fails to send
\* InitConnection::Accept, the key is passed to the listener loop, and the
\* listener in the end sends RejectConnection for the key on the main
\* connection, as long as its loop runs.
C36_FailedAcceptReported ==
    /\ [][\A i \in DOMAIN listener.tasks :
            AcceptFails(i) =>
                listener'.pending_reject =
                    Append(listener.pending_reject,
                           listener.tasks[i].public_key)]_listener
    /\ \A public_key \in ListenerKeys :
         PendingRejectOf(public_key) ~>
             (RejectReported(public_key) \/ listener.pc # "events")

\* A task failed to send InitConnection::Accept on the connection it opened,
\* and the listener, still running, has sent RejectConnection for its key.
C36_Witness ==
    /\ listener.pc = "events"
    /\ \E i \in DOMAIN listener.tasks :
         /\ listener.tasks[i].pc = "done"
         /\ listener.tasks[i].opened # 0
         /\ listener.opened[listener.tasks[i].opened] = <<>>
         /\ RejectReported(listener.tasks[i].public_key)

\* The stream of incoming connections has closed and no app is connected.
NoAppCanCome ==
    /\ server.incoming_connections_closed
    /\ DOMAIN server.apps = {}

\* C37: the app server ends with AllAppsClosed exactly when the stream of
\* incoming connections has closed and no app remains connected: when the
\* stream closes with no app, or when the last app disconnects after the
\* stream closed.  While the stream is open, the end of the last connection
\* does not end the server.
C37_AllAppsClosed ==
    /\ result = "AllAppsClosed" =>
         /\ NoAppCanCome
         /\ \/ applast.event = "IncomingConnectionsClosed"
            \/ applast.event = "FromApp" /\ applast.kind = "none"
    /\ result = "Running" => ~NoAppCanCome
    /\ (/\ applast.event = "FromApp"
        /\ applast.kind = "none"
        /\ ~server.incoming_connections_closed) => result = "Running"
    /\ (/\ applast.event = "IncomingConnectionsClosed"
        /\ DOMAIN server.apps # {}) => result = "Running"

\* The last of MaxApps apps has disconnected after the stream of incoming
\* connections closed, and the server has ended with AllAppsClosed.
C37_Witness ==
    /\ result = "AllAppsClosed"
    /\ applast.event = "FromApp"
    /\ appsteps.connections = MaxApps
    /\ server.app_counter = MaxApps

\* The last app has disconnected while the stream of incoming connections
\* was open, and the server goes on.
C37_WitnessOpen ==
    /\ result = "Running"
    /\ applast.event = "FromApp"
    /\ applast.kind = "none"
    /\ DOMAIN server.apps = {}
    /\ server.app_counter > 0

\* The apps whose sender the server has given up.
SenderDropped ==
    {a \in DOMAIN server.apps : ~server.apps[a].opt_sender}

\* C38: after a send to an app fails the server sends that app nothing more:
\* its sender is dropped, so no later send is tried on the connection and
\* the app is sent no mutations that follow a message it missed.  The
\* failure does not end the server, and the other apps are sent every
\* broadcast: the report they hold is the node report of the server.
C38_SenderDropped ==
    /\ \A a \in DOMAIN conns :
         /\ conns[a].failed <= 1
         /\ conns[a].failed = 1 <=> a \in SenderDropped
         /\ a \in SenderDropped => conns[a].state = "Dropped"
    /\ applast.send_failed =>
         /\ result = "Running"
         /\ SenderDropped # {}
    /\ \A a \in DOMAIN server.apps :
         (a \in DOMAIN conns /\ conns[a].state = "Open") =>
             /\ server.apps[a].opt_sender
             /\ conns[a].report = Some(server.node_report)

\* A broadcast has been handled after the send to an app failed, while the
\* server still knows that app: a second send would have been tried.  The
\* other app is connected and holds the report of the server, which has
\* changed since it connected.
C38_Witness ==
    /\ applast.event \in {"FromFunder", "FromIndexClient"}
    /\ applast.kind = "ReportMutations"
    /\ ~applast.send_failed
    /\ SenderDropped # {}
    /\ \E a \in DOMAIN server.apps :
         /\ a \in DOMAIN conns
         /\ conns[a].state = "Open"
         /\ conns[a].report = Some(server.node_report)
    /\ applast.report_changed

\* ---------------------------------------------------------------------------
\* funder/src/state.rs: FunderState and its mutations

\* The public keys and addresses of the relays.
RelayKeys == {"r1", "r2", "r3"}

RelayAddresses == {"a1", "a2"}

\* NamedRelayAddress
NamedRelayAddresses ==
    [public_key : RelayKeys, address : RelayAddresses]

\* The friends that are added, and the balances they are added with.
FriendKeys == {"f1"}

FriendBalances == {0, 1}

\* The request ids of the transactions, and what tells two responses apart.
TransactionIds == {1}

ResponseLocks == {"x", "y"}

\* FunderMutation: the mutations of the relays, the friends and the open
\* transactions.
FunderMutations ==
    {[kind |-> "AddRelay", relay |-> r] : r \in NamedRelayAddresses}
    \cup {[kind |-> "RemoveRelay", public_key |-> k] : k \in RelayKeys}
    \cup {[kind |-> "AddFriend", friend_public_key |-> f, balance |-> b] :
            f \in FriendKeys, b \in FriendBalances}
    \cup {[kind |-> "RemoveFriend", public_key |-> f] : f \in FriendKeys}
    \cup {[kind |-> "AddTransaction", request_id |-> id, payment_id |-> 1,
           src_plain_lock |-> 1] : id \in TransactionIds}
    \cup {[kind |-> "SetTransactionResponse", request_id |-> id,
           dest_hashed_lock |-> l] : id \in TransactionIds,
                                     l \in ResponseLocks}
    \cup {[kind |-> "RemoveTransaction", request_id |-> id] :
            id \in TransactionIds}

\* FunderState::new
NewFunderState(local_public_key, relays) ==
    [local_public_key |-> local_public_key, relays |-> relays,
     friends |-> EmptyMap, open_transactions |-> EmptyMap]

\* ImVec::retain of the relays whose key is not public_key.
retain_other_keys(relays, public_key) ==
    SelectSeq(relays, LAMBDA r : r.public_key # public_key)

\* Mutant of mutate_add_relay: the relay is pushed and nothing is retained.
mutate_add_relay_push_only(state, named_relay_address) ==
    [state EXCEPT !.relays = Append(@, named_relay_address)]

\* FunderMutation::AddRelay
mutate_add_relay(state, named_relay_address) ==
    [state EXCEPT !.relays =
        Append(retain_other_keys(@, named_relay_address.public_key),
               named_relay_address)]

\* FunderMutation::RemoveRelay
mutate_remove_relay(state, public_key) ==
    [state EXCEPT !.relays = retain_other_keys(@, public_key)]

\* FriendState::new, as far as its arguments tell friends apart.
NewFriendState(local_public_key, add_friend) ==
    [local_public_key |-> local_public_key,
     remote_public_key |-> add_friend.friend_public_key,
     balance |-> add_friend.balance]

\* Mutant of mutate_add_friend: the friend is inserted and the result of the
\* insertion is not looked at.
mutate_add_friend_unchecked(state, add_friend) ==
    [state EXCEPT !.friends =
        MapInsert(@, add_friend.friend_public_key,
                  NewFriendState(state.local_public_key, add_friend))]

\* FunderMutation::AddFriend: assert!(res.is_none())
mutate_add_friend(state, add_friend) ==
    IF add_friend.friend_public_key \in DOMAIN state.friends THEN Panic
    ELSE [state EXCEPT !.friends =
            MapInsert(@, add_friend.friend_public_key,
                      NewFriendState(state.local_public_key, add_friend))]

\* FunderMutation::SetTransactionResponse: unwrap() of the open transaction
\* and assert!(open_transaction.opt_response.take().is_none())
mutate_set_transaction_response(state, response_send_funds) ==
    IF response_send_funds.request_id \notin DOMAIN state.open_transactions
    THEN Panic
    ELSE IF state.open_transactions[response_send_funds.request_id]
                .opt_response.some
    THEN Panic
    ELSE [state EXCEPT
            !.open_transactions[response_send_funds.request_id].opt_response =
                Some([request_id |-> response_send_funds.request_id,
                      dest_hashed_lock |->
                          response_send_funds.dest_hashed_lock])]

\* FunderState::mutate
FunderState_mutate(state, funder_mutation) ==
    CASE funder_mutation.kind = "AddRelay" ->
             mutate_add_relay(state, funder_mutation.relay)
      [] funder_mutation.kind = "RemoveRelay" ->
             mutate_remove_relay(state, funder_mutation.public_key)
      [] funder_mutation.kind = "AddFriend" ->
             mutate_add_friend(state, funder_mutation)
      [] funder_mutation.kind = "RemoveFriend" ->
             [state EXCEPT !.friends =
                 MapRemove(@, funder_mutation.public_key)]
      [] funder_mutation.kind = "AddTransaction" ->
             [state EXCEPT !.open_transactions =
                 MapInsert(@, funder_mutation.request_id,
                           [payment_id |-> funder_mutation.payment_id,
                            src_plain_lock |-> funder_mutation.src_plain_lock,
                            opt_response |-> None])]
      [] funder_mutation.kind = "SetTransactionResponse" ->
             mutate_set_transaction_response(state, funder_mutation)
      [] funder_mutation.kind = "RemoveTransaction" ->
             [state EXCEPT !.open_transactions =
                 MapRemove(@, funder_mutation.request_id)]

\* The public keys of a list of relays.
KeysOf(relays) == {relays[i].public_key : i \in DOMAIN relays}

\* No two relays of the list share a public key.
DistinctKeys(relays) ==
    \A i, j \in DOMAIN relays :
        relays[i].public_key = relays[j].public_key => i = j

NoMutation == [kind |-> "none"]

\* A FunderState whose relays have distinct public keys, before any mutation.
FunderInit ==
    /\ \E relays \in SeqsUpTo(NamedRelayAddresses, 2) :
         /\ DistinctKeys(relays)
         /\ funder = [state |-> NewFunderState("A", relays),
                      before |-> NewFunderState("A", relays),
                      last |-> NoMutation, existed |-> FALSE,
                      panicked |-> FALSE]
    /\ IdleMc
    /\ IdlePair
    /\ IdleTc
    /\ IdleApp
    /\ IdleNode
    /\ listener = <<>>
    /\ connect = <<>>
    /\ wire = <<>>
    /\ xchg = <<>>

\* Whether the entry that a mutation is about is there.
Existed(state, m) ==
    CASE m.kind = "AddRelay" -> m.relay.public_key \in KeysOf(state.relays)
      [] m.kind = "RemoveRelay" -> m.public_key \in KeysOf(state.relays)
      [] m.kind = "AddFriend" ->
             m.friend_public_key \in DOMAIN state.friends
      [] m.kind = "RemoveFriend" -> m.public_key \in DOMAIN state.friends
      [] OTHER -> m.request_id \in DOMAIN state.open_transactions

\* What a mutation that aborts has done to the state by then: AddFriend
\* has inserted the friend before it asserts on what the insertion
\* returned, SetTransactionResponse has taken the response out before it
\* asserts that there was none, and the unwrap() of a transaction that is
\* not there has changed nothing.
AtAbort(state, m) ==
    CASE m.kind = "AddFriend" ->
             [state EXCEPT !.friends =
                 MapInsert(@, m.friend_public_key,
                           NewFriendState(state.local_public_key, m))]
      [] m.kind = "SetTransactionResponse"
           /\ m.request_id \in DOMAIN state.open_transactions ->
             [state EXCEPT
                 !.open_transactions[m.request_id].opt_response = None]
      [] OTHER -> state

\* A mutation is applied; a mutation that fails an assertion or an unwrap
\* aborts, and nothing is applied after it. `before` is the state that the
\* mutation was applied to.
FunderMutate ==
    /\ ~funder.panicked
    /\ \E m \in FunderMutations :
         LET r == FunderState_mutate(funder.state, m) IN
         funder' = [state |-> IF HasPanicked(r) THEN AtAbort(funder.state, m)
                              ELSE r,
                    before |-> funder.state,
                    last |-> m, existed |-> Existed(funder.state, m),
                    panicked |-> HasPanicked(r)]

FunderNext ==
    FunderMutate /\ UNCHANGED <<mcVars, pairVars, tcVars, appVars, nodeVars, listener, connect, wire, xchg>>

SpecFunder == FunderInit /\ [][FunderNext]_vars

\* Where the relay of a key is in a list in which the key is.
PositionOf(relays, public_key) ==
    CHOOSE i \in DOMAIN relays : relays[i].public_key = public_key

\* The relays of the keys other than public_key are the same before and
\* after, and in the same relative order.
OthersKept(before, after, public_key) ==
    /\ KeysOf(after) \ {public_key} = KeysOf(before) \ {public_key}
    /\ \A k \in KeysOf(before) \ {public_key} :
         after[PositionOf(after, k)] = before[PositionOf(before, k)]
    /\ \A k1, k2 \in KeysOf(before) \ {public_key} :
         PositionOf(before, k1) < PositionOf(before, k2)
             <=> PositionOf(after, k1) < PositionOf(after, k2)

\* What a mutation of the relays does to them.
RelaysStep ==
    LET m == funder'.last
        before == funder.state.relays
        after == funder'.state.relays
    IN CASE m.kind = "AddRelay" ->
              /\ after # <<>>
              /\ after[Len(after)] = m.relay
              /\ OthersKept(before, after, m.relay.public_key)
              /\ Len(after) = Cardinality(KeysOf(before)
                                          \cup {m.relay.public_key})
         [] m.kind = "RemoveRelay" ->
              /\ m.public_key \notin KeysOf(after)
              /\ OthersKept(before, after, m.public_key)
              /\ Len(after) = Cardinality(KeysOf(before) \ {m.public_key})
         [] OTHER -> after = before

\* C39: relay list uniqueness: after any sequence of AddRelay and
\* RemoveRelay on a FunderState whose relays had distinct public keys, no two
\* relays share a public key; AddRelay for a key that is there replaces its
\* entry and places it last; RemoveRelay removes the entry and keeps the
\* relative order of the others.
C39_RelaysUnique ==
    /\ [](DistinctKeys(funder.state.relays))
    /\ [][RelaysStep]_funder

\* A relay whose key was there, among three, has been added again, with
\* another address, and is last.
C39_Witness ==
    /\ funder.last.kind = "AddRelay"
    /\ funder.existed
    /\ Len(funder.state.relays) = 3
    /\ funder.state.relays[3] = funder.last.relay
    /\ funder.state.relays[3].address = "a2"
    /\ funder.state.relays[1].address = "a1"

\* What a mutation of the friends or of the open transactions does: AddFriend
\* for a friend that is there and SetTransactionResponse for a transaction
\* that has a response abort; otherwise they insert the friend and record
\* the response. A mutation that returns has left every friend that stays
\* as it was, and every recorded response of a transaction that was not
\* added anew.
LiveEntriesStep ==
    LET m == funder'.last
        before == funder.state
        after == funder'.state
    IN /\ m.kind = "AddFriend" =>
            IF m.friend_public_key \in DOMAIN before.friends
            THEN funder'.panicked
            ELSE /\ ~funder'.panicked
                 /\ after.friends[m.friend_public_key]
                      = NewFriendState(before.local_public_key, m)
       /\ m.kind = "SetTransactionResponse" =>
            IF /\ m.request_id \in DOMAIN before.open_transactions
               /\ ~before.open_transactions[m.request_id].opt_response.some
            THEN /\ ~funder'.panicked
                 /\ after.open_transactions[m.request_id].opt_response
                      = Some([request_id |-> m.request_id,
                              dest_hashed_lock |-> m.dest_hashed_lock])
            ELSE funder'.panicked
       /\ ~funder'.panicked =>
            /\ \A f \in DOMAIN before.friends \cap DOMAIN after.friends :
                 after.friends[f] = before.friends[f]
            /\ \A id \in DOMAIN before.open_transactions
                           \cap DOMAIN after.open_transactions :
                 (/\ before.open_transactions[id].opt_response.some
                  /\ m.kind # "AddTransaction") =>
                     after.open_transactions[id]
                       = before.open_transactions[id]

C40_WitnessFriend ==
    /\ funder.panicked
    /\ funder.last.kind = "AddFriend"
    /\ funder.before.friends[funder.last.friend_public_key].balance
         # funder.last.balance

====
